---- MODULE Spec2Model ----
(***************************************************************************)
(* Cerberus: ring-buffer ingestion loop, NetworkMonitor aggregator (LRU    *)
(* device cache, global counters, notification channels) and the snapshot  *)
(* worker, as a state machine.                                             *)
(*                                                                         *)
(* Go strings are modelled as follows: MAC strings are sequences of        *)
(* one-character strings (so that ToUpper/Split can be computed), IP       *)
(* strings, protocol labels, traffic types, service labels and pattern     *)
(* keys are TLA+ strings, and L7 strings are sequences of byte values.     *)
(***************************************************************************)
EXTENDS Integers, Sequences, FiniteSets, TLC

VARIABLES
    traffic,         \* the raw samples the monitored interfaces can produce
    ring,            \* kernel -> user ring buffer: sequence of raw samples
    submitted,       \* number of frames the kernel classifier has handled
    eventCount,      \* eventCount of the event processor goroutine
    size,            \* cacheSize given to NewNetworkMonitor
    Cache,           \* nm.Cache: entries [key, value], oldest first
    db,              \* nm.db: MAC string -> JSON value
    Stats,           \* nm.Stats
    newDeviceChan,   \* nm.newDeviceChan (buffered)
    newPatternChan,  \* nm.newPatternChan (buffered)
    now,             \* wall clock read by time.Now()
    pw,              \* persistWorker: position, enumerated keys, marshal buffer
    ticks,           \* ticks of the 30 s snapshot ticker delivered so far
    patLog,          \* history: per cached device, the pattern sends attempted
    devAttempts,     \* history: number of new-device sends attempted
    tornRead,        \* history: a reader saw a record in the middle of an update
    main,            \* main goroutine: position, interface loop, links, deferred calls
    binding,         \* per interface: state of the classifier binding, detach calls
    closed,          \* the resources that have been closed
    held,            \* the record the event processor has read and not yet handled
    verdicts,        \* history: the values the classifier has returned
    patternClients,  \* Server.patternClients: the channel of every SSE client
    mu,              \* NetworkMonitor.mu: "free", or the task that holds the write lock
    reply,           \* the last reply of a per-device query handler of the API server
    twin             \* a second monitor fed the same events, whose consumers never run

vars == <<traffic, ring, submitted, eventCount, size, Cache, db, Stats, newDeviceChan,
          newPatternChan, now, pw, ticks, patLog, devAttempts, tornRead,
          main, binding, closed, held, verdicts, patternClients, mu, twin, reply>>

----------------------------------------------------------------------------
(* Bounds of the model *)

MaxEvents == 3
MaxRing == 1
MaxCacheSize == 2
\* SSE clients connected to /patterns/stream at one time
MaxClients == 1
MaxTicks == 1
DeviceChanCap == 1
PatternChanCap == 1
ScriptLen == 25
MaxBacklog == 2
NumIfaces == 2

(* Program constants *)

ExpectedSize == 79
RecordSize == 75
MaxTargets == 20

----------------------------------------------------------------------------
(* Byte and string helpers *)

Bit(x, mask) == (x \div mask) % 2 = 1

Zeros(n) == [i \in 1..n |-> 0]

Pad(s, n) == [i \in 1..n |-> IF i <= Len(s) THEN s[i] ELSE 0]

HasPrefix(s, p) == Len(s) >= Len(p) /\ SubSeq(s, 1, Len(p)) = p

Contains(slice, item) == \E i \in 1..Len(slice) : slice[i] = item

Uint16LE(data, offset) == data[offset + 1] + 256 * data[offset + 2]

Uint32LE(data, offset) ==
    data[offset + 1] + 256 * data[offset + 2] + 65536 * data[offset + 3]
        + 16777216 * data[offset + 4]

PutUint16LE(v) == <<v % 256, (v \div 256) % 256>>

PutUint32LE(v) ==
    <<v % 256, (v \div 256) % 256, (v \div 65536) % 256, (v \div 16777216) % 256>>

HexDigits == <<"0", "1", "2", "3", "4", "5", "6", "7", "8", "9",
               "a", "b", "c", "d", "e", "f">>

Hex2(b) == <<HexDigits[(b \div 16) + 1], HexDigits[(b % 16) + 1]>>

MacToString(mac) ==
    Hex2(mac[1]) \o <<":">> \o Hex2(mac[2]) \o <<":">> \o Hex2(mac[3]) \o <<":">>
        \o Hex2(mac[4]) \o <<":">> \o Hex2(mac[5]) \o <<":">> \o Hex2(mac[6])

IntToIP(i) == PutUint32LE(i)

IPString(ip) ==
    ToString(ip[1]) \o "." \o ToString(ip[2]) \o "." \o ToString(ip[3])
        \o "." \o ToString(ip[4])

UpperChar(c) ==
    CASE c = "a" -> "A" [] c = "b" -> "B" [] c = "c" -> "C"
      [] c = "d" -> "D" [] c = "e" -> "E" [] c = "f" -> "F"
      [] OTHER -> c

ToUpper(s) == [i \in 1..Len(s) |-> UpperChar(s[i])]

RECURSIVE SplitFrom(_, _, _, _, _)
SplitFrom(s, sep, i, cur, acc) ==
    IF i > Len(s) THEN Append(acc, cur)
    ELSE IF s[i] = sep THEN SplitFrom(s, sep, i + 1, <<>>, Append(acc, cur))
    ELSE SplitFrom(s, sep, i + 1, Append(cur, s[i]), acc)

Split(s, sep) == SplitFrom(s, sep, 1, <<>>, <<>>)

RECURSIVE Join(_, _)
Join(parts, sep) ==
    IF Len(parts) = 0 THEN <<>>
    ELSE IF Len(parts) = 1 THEN parts[1]
    ELSE parts[1] \o <<sep>> \o Join(Tail(parts), sep)

IsSpace(b) == b \in {9, 10, 11, 12, 13, 32}

RECURSIVE FieldsFrom(_, _, _, _)
FieldsFrom(s, i, cur, acc) ==
    IF i > Len(s) THEN (IF Len(cur) > 0 THEN Append(acc, cur) ELSE acc)
    ELSE IF IsSpace(s[i])
         THEN FieldsFrom(s, i + 1, <<>>, IF Len(cur) > 0 THEN Append(acc, cur) ELSE acc)
         ELSE FieldsFrom(s, i + 1, Append(cur, s[i]), acc)

Fields(s) == FieldsFrom(s, 1, <<>>, <<>>)

----------------------------------------------------------------------------
(* Wire format: struct network_event (kernel side) and ParseNetworkEvent *)

EVENT_TYPE_ARP == 1
EVENT_TYPE_TCP == 2
EVENT_TYPE_UDP == 3
EVENT_TYPE_ICMP == 4
EVENT_TYPE_DNS == 5
EVENT_TYPE_HTTP == 6
EVENT_TYPE_TLS == 7

network_event(e) ==
    <<e.EventType>> \o e.SrcMac \o e.DstMac \o PutUint32LE(e.SrcIP)
        \o PutUint32LE(e.DstIP) \o PutUint16LE(e.SrcPort) \o PutUint16LE(e.DstPort)
        \o <<e.Protocol, e.TCPFlags>> \o PutUint16LE(e.ArpOp) \o e.ArpSha \o e.ArpTha
        \o <<e.ICMPType, e.ICMPCode>> \o e.L7Payload

ParseNetworkEventBigEndian(data) ==
    [EventType |-> data[1],
     SrcMac    |-> SubSeq(data, 2, 7),
     DstMac    |-> SubSeq(data, 8, 13),
     SrcIP     |-> Uint32LE(data, 13),
     DstIP     |-> Uint32LE(data, 17),
     SrcPort   |-> data[22] * 256 + data[23],
     DstPort   |-> data[24] * 256 + data[25],
     Protocol  |-> data[26],
     TCPFlags  |-> data[27],
     ArpOp     |-> data[28] * 256 + data[29],
     ArpSha    |-> SubSeq(data, 30, 35),
     ArpTha    |-> SubSeq(data, 36, 41),
     ICMPType  |-> data[42],
     ICMPCode  |-> data[43],
     L7Payload |-> IF Len(data) >= 43 + 32 THEN SubSeq(data, 44, 75) ELSE Zeros(32)]

ParseNetworkEvent(data) ==
    [EventType |-> data[1],
     SrcMac    |-> SubSeq(data, 2, 7),
     DstMac    |-> SubSeq(data, 8, 13),
     SrcIP     |-> Uint32LE(data, 13),
     DstIP     |-> Uint32LE(data, 17),
     SrcPort   |-> Uint16LE(data, 21),
     DstPort   |-> Uint16LE(data, 23),
     Protocol  |-> data[26],
     TCPFlags  |-> data[27],
     ArpOp     |-> Uint16LE(data, 27),
     ArpSha    |-> SubSeq(data, 30, 35),
     ArpTha    |-> SubSeq(data, 36, 41),
     ICMPType  |-> data[42],
     ICMPCode  |-> data[43],
     L7Payload |-> IF Len(data) >= 43 + 32 THEN SubSeq(data, 44, 75) ELSE Zeros(32)]

----------------------------------------------------------------------------
(* Kernel classifier. A frame (skb) is its sequence of bytes, data_end is  *)
(* its length, and a pointer into the frame is an offset from data.        *)

TC_ACT_OK == "TC_ACT_OK"

ETH_P_ARP == 2054
ETH_P_IP == 2048
PROTO_TCP == 6
PROTO_UDP == 17
PROTO_ICMP == 1
DNS_PORT == 53
HTTP_PORT == 80
HTTP_ALT_PORT == 8080
HTTPS_PORT == 443
HTTPS_ALT_PORT == 8443

bpf_ntohs(skb, offset) == skb[offset + 1] * 256 + skb[offset + 2]

bpf_ringbuf_reserve_unbounded(r) == TRUE

(* bpf_ringbuf_reserve fails when the ring has no room for the record *)
bpf_ringbuf_reserve(r) == Len(r) < MaxRing

(* what a handler hands back: its return value and the ring it leaves *)
Return(ret, r) == [ret |-> ret, ring |-> r]

Submitted(r, e) == Return(TC_ACT_OK, Append(r, network_event(e)))

(* l7_payload after the memset and the copy loop *)
CopyPayload(skb, payload) ==
    [i \in 1..32 |-> IF payload + i <= Len(skb) THEN skb[payload + i] ELSE 0]

is_http_request(skb, payload) ==
    IF payload + 4 > Len(skb) THEN FALSE
    ELSE SubSeq(skb, payload + 1, payload + 4) \in
            { <<71, 69, 84, 32>>, <<80, 79, 83, 84>>, <<72, 69, 65, 68>>,
              <<80, 85, 84, 32>>, <<68, 69, 76, 69>> }

is_tls_handshake_any_version(skb, payload) ==
    IF payload + 6 > Len(skb) THEN FALSE
    ELSE skb[payload + 1] = 22 /\ skb[payload + 2] = 3

is_tls_handshake(skb, payload) ==
    IF payload + 6 > Len(skb) THEN FALSE
    ELSE skb[payload + 1] = 22 /\ skb[payload + 2] = 3 /\ skb[payload + 3] <= 4

handle_arp(skb, r) ==
    LET arp == 14
        arp_data == arp + 8
    IN IF arp + 8 > Len(skb) THEN Return(TC_ACT_OK, r)
       ELSE IF bpf_ntohs(skb, arp) # 1 \/ bpf_ntohs(skb, arp + 2) # ETH_P_IP
                 \/ skb[arp + 5] # 6 \/ skb[arp + 6] # 4
            THEN Return(TC_ACT_OK, r)
       ELSE IF arp_data + 20 > Len(skb) THEN Return(TC_ACT_OK, r)
       ELSE IF ~bpf_ringbuf_reserve(r) THEN Return(TC_ACT_OK, r)
       ELSE Submitted(r,
              [EventType |-> EVENT_TYPE_ARP,
               SrcMac |-> SubSeq(skb, 7, 12), DstMac |-> SubSeq(skb, 1, 6),
               ArpSha |-> SubSeq(skb, arp_data + 1, arp_data + 6),
               SrcIP |-> Uint32LE(skb, arp_data + 6),
               ArpTha |-> SubSeq(skb, arp_data + 11, arp_data + 16),
               DstIP |-> Uint32LE(skb, arp_data + 16),
               ArpOp |-> bpf_ntohs(skb, arp + 6),
               Protocol |-> 0, SrcPort |-> 0, DstPort |-> 0, TCPFlags |-> 0,
               ICMPType |-> 0, ICMPCode |-> 0, L7Payload |-> Zeros(32)])

handle_tcp(skb, r) ==
    LET iph == 14
        tcph == iph + (skb[iph + 1] % 16) * 4
    IN IF tcph + 20 > Len(skb) THEN Return(TC_ACT_OK, r)
       ELSE IF ~bpf_ringbuf_reserve(r) THEN Return(TC_ACT_OK, r)
       ELSE LET src_port == bpf_ntohs(skb, tcph)
                dst_port == bpf_ntohs(skb, tcph + 2)
                payload == tcph + (skb[tcph + 13] \div 16) * 4
                http == /\ payload < Len(skb)
                        /\ {dst_port, src_port} \cap {HTTP_PORT, HTTP_ALT_PORT} # {}
                        /\ is_http_request(skb, payload)
                tls == /\ payload < Len(skb)
                       /\ {dst_port, src_port} \cap {HTTPS_PORT, HTTPS_ALT_PORT} # {}
                       /\ is_tls_handshake(skb, payload)
            IN Submitted(r,
                 [EventType |-> IF tls THEN EVENT_TYPE_TLS
                                ELSE IF http THEN EVENT_TYPE_HTTP
                                ELSE EVENT_TYPE_TCP,
                  SrcMac |-> SubSeq(skb, 7, 12), DstMac |-> SubSeq(skb, 1, 6),
                  SrcIP |-> Uint32LE(skb, iph + 12), DstIP |-> Uint32LE(skb, iph + 16),
                  SrcPort |-> src_port, DstPort |-> dst_port, Protocol |-> PROTO_TCP,
                  ArpOp |-> 0, TCPFlags |-> skb[tcph + 14] % 32,
                  ICMPType |-> 0, ICMPCode |-> 0,
                  ArpSha |-> Zeros(6), ArpTha |-> Zeros(6),
                  L7Payload |-> CopyPayload(skb, payload)])

handle_udp(skb, r) ==
    LET iph == 14
        udph == iph + (skb[iph + 1] % 16) * 4
    IN IF udph + 8 > Len(skb) THEN Return(TC_ACT_OK, r)
       ELSE IF ~bpf_ringbuf_reserve(r) THEN Return(TC_ACT_OK, r)
       ELSE LET src_port == bpf_ntohs(skb, udph)
                dst_port == bpf_ntohs(skb, udph + 2)
            IN Submitted(r,
                 [EventType |-> IF src_port = DNS_PORT \/ dst_port = DNS_PORT
                                THEN EVENT_TYPE_DNS ELSE EVENT_TYPE_UDP,
                  SrcMac |-> SubSeq(skb, 7, 12), DstMac |-> SubSeq(skb, 1, 6),
                  SrcIP |-> Uint32LE(skb, iph + 12), DstIP |-> Uint32LE(skb, iph + 16),
                  SrcPort |-> src_port, DstPort |-> dst_port, Protocol |-> PROTO_UDP,
                  TCPFlags |-> 0, ArpOp |-> 0, ICMPType |-> 0, ICMPCode |-> 0,
                  ArpSha |-> Zeros(6), ArpTha |-> Zeros(6),
                  L7Payload |-> CopyPayload(skb, udph + 8)])

handle_icmp(skb, r) ==
    LET iph == 14
        icmph == iph + (skb[iph + 1] % 16) * 4
    IN IF icmph + 8 > Len(skb) THEN Return(TC_ACT_OK, r)
       ELSE IF ~bpf_ringbuf_reserve(r) THEN Return(TC_ACT_OK, r)
       ELSE Submitted(r,
              [EventType |-> EVENT_TYPE_ICMP,
               SrcMac |-> SubSeq(skb, 7, 12), DstMac |-> SubSeq(skb, 1, 6),
               SrcIP |-> Uint32LE(skb, iph + 12), DstIP |-> Uint32LE(skb, iph + 16),
               Protocol |-> PROTO_ICMP,
               ICMPType |-> skb[icmph + 1], ICMPCode |-> skb[icmph + 2],
               TCPFlags |-> 0, ArpOp |-> 0, SrcPort |-> 0, DstPort |-> 0,
               ArpSha |-> Zeros(6), ArpTha |-> Zeros(6), L7Payload |-> Zeros(32)])

xdp_arp_monitor(skb, r) ==
    IF 14 > Len(skb) THEN Return(TC_ACT_OK, r)
    ELSE LET proto == bpf_ntohs(skb, 12)
             iph == 14
         IN IF proto = ETH_P_ARP THEN handle_arp(skb, r)
            ELSE IF proto = ETH_P_IP
                 THEN IF iph + 20 > Len(skb) THEN Return(TC_ACT_OK, r)
                      ELSE IF skb[iph + 10] = PROTO_TCP THEN handle_tcp(skb, r)
                      ELSE IF skb[iph + 10] = PROTO_UDP THEN handle_udp(skb, r)
                      ELSE IF skb[iph + 10] = PROTO_ICMP THEN handle_icmp(skb, r)
                      ELSE Return(TC_ACT_OK, r)
            ELSE Return(TC_ACT_OK, r)

----------------------------------------------------------------------------
(* L7 peek *)

RECURSIVE DNSLabelsKeepPartial(_, _, _)
DNSLabelsKeepPartial(payload, offset, domain) ==
    IF offset >= Len(payload) THEN domain
    ELSE LET labelLen == payload[offset + 1] IN
         IF labelLen = 0 THEN domain
         ELSE IF labelLen > 63 THEN domain
         ELSE IF offset + labelLen + 1 > Len(payload)
              THEN Append(domain, SubSeq(payload, offset + 2, Len(payload)))
         ELSE DNSLabelsKeepPartial(payload, offset + 1 + labelLen,
                        Append(domain, SubSeq(payload, offset + 2, offset + 1 + labelLen)))

RECURSIVE DNSLabels(_, _, _)
DNSLabels(payload, offset, domain) ==
    IF offset >= Len(payload) THEN domain
    ELSE LET labelLen == payload[offset + 1] IN
         IF labelLen = 0 THEN domain
         ELSE IF labelLen > 63 \/ offset + labelLen + 1 > Len(payload) THEN domain
         ELSE DNSLabels(payload, offset + 1 + labelLen,
                        Append(domain, SubSeq(payload, offset + 2, offset + 1 + labelLen)))

(* the indices of payload that the loop of InspectDNS reads, counted from 0 *)
RECURSIVE DNSReads(_, _)
DNSReads(payload, offset) ==
    IF offset >= Len(payload) THEN {}
    ELSE LET labelLen == payload[offset + 1] IN
         IF labelLen = 0 THEN {offset}
         ELSE IF labelLen > 63 \/ offset + labelLen + 1 > Len(payload) THEN {offset}
         ELSE {offset} \cup ((offset + 1)..(offset + labelLen))
                  \cup DNSReads(payload, offset + 1 + labelLen)

InspectDNS(payload) ==
    IF Len(payload) < 13 THEN <<>>
    ELSE LET domain == DNSLabels(payload, 12, <<>>) IN
         IF Len(domain) > 0 THEN Join(domain, 46) ELSE <<>>

GET == <<71, 69, 84>>
POST == <<80, 79, 83, 84>>
HEAD == <<72, 69, 65, 68>>
PUT == <<80, 85, 84>>
DELETE == <<68, 69, 76, 69, 84, 69>>

SecondField(str) == LET parts == Fields(str) IN IF Len(parts) >= 2 THEN parts[2] ELSE <<>>

InspectHTTP(payload) ==
    IF HasPrefix(payload, GET \o <<32>>) THEN [method |-> GET, path |-> SecondField(payload)]
    ELSE IF HasPrefix(payload, POST \o <<32>>) THEN [method |-> POST, path |-> SecondField(payload)]
    ELSE IF HasPrefix(payload, HEAD \o <<32>>) THEN [method |-> HEAD, path |-> SecondField(payload)]
    ELSE IF HasPrefix(payload, PUT \o <<32>>) THEN [method |-> PUT, path |-> SecondField(payload)]
    ELSE IF HasPrefix(payload, DELETE \o <<32>>) THEN [method |-> DELETE, path |-> SecondField(payload)]
    ELSE [method |-> <<>>, path |-> <<>>]

TLSInfo == <<84, 76, 83>>

InspectTLS(payload) ==
    IF Len(payload) < 5 THEN <<>>
    ELSE IF payload[1] # 22 THEN <<>>
    ELSE TLSInfo

GetL7Info(evt) ==
    IF evt.EventType = EVENT_TYPE_DNS THEN InspectDNS(evt.L7Payload)
    ELSE IF evt.EventType = EVENT_TYPE_HTTP
         THEN LET r == InspectHTTP(evt.L7Payload) IN
              IF r.method # <<>>
              THEN (IF r.path # <<>> THEN r.method \o <<32>> \o r.path ELSE r.method)
              ELSE <<>>
    ELSE IF evt.EventType = EVENT_TYPE_TLS THEN InspectTLS(evt.L7Payload)
    ELSE <<>>

----------------------------------------------------------------------------
(* Traffic classification *)

classifyTCPTrafficFlagsFirst(srcIP, dstIP, srcPort, dstPort, tcpFlags) ==
    IF Bit(tcpFlags, 2) /\ ~Bit(tcpFlags, 16) THEN "TCP_SYN"
    ELSE IF Bit(tcpFlags, 2) /\ Bit(tcpFlags, 16) THEN "TCP_SYNACK"
    ELSE IF Bit(tcpFlags, 1) THEN "TCP_FIN"
    ELSE IF Bit(tcpFlags, 4) THEN "TCP_RST"
    ELSE IF dstPort = 80 THEN "TCP_HTTP"
    ELSE IF dstPort = 443 THEN "TCP_HTTPS"
    ELSE IF dstPort = 22 THEN "TCP_SSH"
    ELSE IF Bit(tcpFlags, 16) THEN "TCP_ACK"
    ELSE "TCP_CUSTOM"

classifyTCPTraffic(srcIP, dstIP, srcPort, dstPort, tcpFlags) ==
    IF dstPort = 80 THEN "TCP_HTTP"
    ELSE IF dstPort = 443 THEN "TCP_HTTPS"
    ELSE IF dstPort = 22 THEN "TCP_SSH"
    ELSE IF Bit(tcpFlags, 2) /\ ~Bit(tcpFlags, 16) THEN "TCP_SYN"
    ELSE IF Bit(tcpFlags, 2) /\ Bit(tcpFlags, 16) THEN "TCP_SYNACK"
    ELSE IF Bit(tcpFlags, 1) THEN "TCP_FIN"
    ELSE IF Bit(tcpFlags, 4) THEN "TCP_RST"
    ELSE IF Bit(tcpFlags, 16) THEN "TCP_ACK"
    ELSE "TCP_CUSTOM"

classifyUDPTraffic(srcIP, dstIP, srcPort, dstPort) ==
    IF dstPort = 53 \/ srcPort = 53 THEN "UDP_DNS"
    ELSE IF dstPort = 67 \/ dstPort = 68 THEN "UDP_DHCP"
    ELSE IF dstPort = 123 THEN "UDP_NTP"
    ELSE IF dstPort = 161 \/ dstPort = 162 THEN "UDP_SNMP"
    ELSE "UDP_CUSTOM"

classifyARPTrafficAnnounceFirst(srcIP, dstIP, op) ==
    IF srcIP = dstIP THEN "ARP_ANNOUNCE"
    ELSE IF srcIP = "0.0.0.0" THEN "ARP_PROBE"
    ELSE IF op = 1 THEN "ARP_REQUEST"
    ELSE IF op = 2 THEN "ARP_REPLY"
    ELSE "ARP_REQUEST"

classifyARPTraffic(srcIP, dstIP, op) ==
    IF srcIP = "0.0.0.0" THEN "ARP_PROBE"
    ELSE IF srcIP = dstIP THEN "ARP_ANNOUNCE"
    ELSE IF op = 1 THEN "ARP_REQUEST"
    ELSE IF op = 2 THEN "ARP_REPLY"
    ELSE "ARP_REQUEST"

classifyICMPTraffic(icmpType, icmpCode) ==
    CASE icmpType = 0 -> "ICMP_ECHO_REPLY"
      [] icmpType = 3 -> "ICMP_DEST_UNREACHABLE"
      [] icmpType = 5 -> "ICMP_REDIRECT"
      [] icmpType = 8 -> "ICMP_ECHO_REQUEST"
      [] icmpType = 11 -> "ICMP_TIME_EXCEEDED"
      [] OTHER -> "ICMP_CUSTOM"

classifyDNSTraffic(payload) ==
    IF Len(payload) >= 3 /\ Bit(payload[3] * 256 + payload[4], 32768)
    THEN "DNS_RESPONSE"
    ELSE "DNS_QUERY"

classifyHTTPTraffic(payload) ==
    IF HasPrefix(payload, GET \o <<32>>) THEN "HTTP_GET"
    ELSE IF HasPrefix(payload, POST \o <<32>>) THEN "HTTP_POST"
    ELSE "HTTP_REQUEST"

classifyTLSTraffic(payload) ==
    IF Len(payload) >= 6 /\ payload[1] = 22 /\ payload[6] = 1 THEN "TLS_CLIENT_HELLO"
    ELSE IF Len(payload) >= 6 /\ payload[1] = 22 /\ payload[6] = 2 THEN "TLS_SERVER_HELLO"
    ELSE "TLS_HANDSHAKE"

(* Excerpts of the static lookup tables *)

serviceDB ==
    (22 :> [Protocol |-> "TCP", Service |-> "SSH"]) @@
    (53 :> [Protocol |-> "UDP", Service |-> "DNS"]) @@
    (80 :> [Protocol |-> "TCP", Service |-> "HTTP"]) @@
    (123 :> [Protocol |-> "UDP", Service |-> "NTP"]) @@
    (443 :> [Protocol |-> "TCP", Service |-> "HTTPS"])

getServiceName(port, protocol) ==
    IF port \in DOMAIN serviceDB
         /\ (serviceDB[port].Protocol = protocol \/ serviceDB[port].Protocol = "BOTH")
    THEN serviceDB[port].Service
    ELSE protocol \o "/" \o ToString(port)

ouiDB ==
    (<<"0", "0", ":", "0", "C", ":", "2", "9">> :> "VMware") @@
    (<<"D", "C", ":", "6", "2", ":", "7", "9">> :> "IoT Device") @@
    (<<"B", "8", ":", "2", "7", ":", "E", "B">> :> "Raspberry Pi")

(* the vendor of the OUI built from the first three groups of the MAC *)
VendorOf(parts) ==
    IF Len(parts) < 3 THEN "Unknown"
    ELSE LET oui == Join(SubSeq(parts, 1, 3), ":") IN
         IF oui \in DOMAIN ouiDB THEN ouiDB[oui] ELSE "Unknown"

lookupVendor(mac) ==
    CHOOSE vendor \in {VendorOf(parts) : parts \in {Split(ToUpper(mac), ":")}} : TRUE

----------------------------------------------------------------------------
(* Go maps: a map is a function on the keys present; a nil map reads as    *)
(* the empty map, so json.Unmarshal's nil maps are modelled as empty.      *)

EmptyMap == <<>>

BumpOnce(m, k) == IF k \in DOMAIN m THEN m ELSE m @@ (k :> 1)

Bump(m, k) == IF k \in DOMAIN m THEN [m EXCEPT ![k] = @ + 1] ELSE m @@ (k :> 1)

(* hashicorp/golang-lru: entries kept oldest first, as Keys() lists them *)

CacheKeys(c) == [i \in 1..Len(c) |-> c[i].key]

CacheKeySet(c) == {c[i].key : i \in 1..Len(c)}

CacheIndex(c, key) == CHOOSE i \in 1..Len(c) : c[i].key = key

CacheValue(c, key) == c[CacheIndex(c, key)].value

RemoveAt(s, i) == SubSeq(s, 1, i - 1) \o SubSeq(s, i + 1, Len(s))

CacheGet(c, key) ==
    IF key \in CacheKeySet(c)
    THEN LET i == CacheIndex(c, key) IN Append(RemoveAt(c, i), c[i])
    ELSE c

CacheAddNoEvict(c, key, value, cacheSize) ==
    IF key \in CacheKeySet(c)
    THEN Append(RemoveAt(c, CacheIndex(c, key)), [key |-> key, value |-> value])
    ELSE Append(c, [key |-> key, value |-> value])

CacheAdd(c, key, value, cacheSize) ==
    IF key \in CacheKeySet(c)
    THEN Append(RemoveAt(c, CacheIndex(c, key)), [key |-> key, value |-> value])
    ELSE LET added == Append(c, [key |-> key, value |-> value]) IN
         IF Len(added) > cacheSize THEN Tail(added) ELSE added

(* encoding/json on models.DeviceInfo: SeenPatterns and FlowStats carry    *)
(* the tag json:"-" and are neither written nor read back.                 *)

JSONFields ==
    {"MAC", "IP", "Vendor", "FirstSeen", "LastSeen", "RequestCount", "ReplyCount",
     "TCPConnections", "UDPConnections", "ICMPPackets", "DNSQueries", "HTTPRequests",
     "TLSConnections", "Targets", "Services", "DNSDomains", "HTTPHosts", "TLSSNIs",
     "TrafficTypeCounts"}

Marshal(device) == [f \in JSONFields |-> device[f]]

UnmarshalIdentityOnly(val) ==
    [f \in JSONFields \cup {"SeenPatterns", "FlowStats"} |->
        IF f \in {"MAC", "IP", "Vendor", "FirstSeen", "LastSeen"} THEN val[f]
        ELSE IF f = "SeenPatterns" THEN {}
        ELSE IF f = "Targets" THEN <<>>
        ELSE IF f \in {"Services", "DNSDomains", "HTTPHosts", "TLSSNIs",
                       "TrafficTypeCounts", "FlowStats"} THEN EmptyMap
        ELSE 0]

Unmarshal(val) ==
    [f \in JSONFields \cup {"SeenPatterns", "FlowStats"} |->
        IF f = "SeenPatterns" THEN {}
        ELSE IF f = "FlowStats" THEN EmptyMap
        ELSE val[f]]

----------------------------------------------------------------------------
(* NetworkMonitor.TrackEvent, step by step *)

BumpStatsL4Too(stats, eventType) ==
    LET total == [stats EXCEPT !.TotalPackets = @ + 1] IN
    CASE eventType = EVENT_TYPE_ARP  -> [total EXCEPT !.ArpPackets = @ + 1]
      [] eventType = EVENT_TYPE_TCP  -> [total EXCEPT !.TcpPackets = @ + 1]
      [] eventType = EVENT_TYPE_UDP  -> [total EXCEPT !.UdpPackets = @ + 1]
      [] eventType = EVENT_TYPE_ICMP -> [total EXCEPT !.IcmpPackets = @ + 1]
      [] eventType = EVENT_TYPE_DNS  -> [total EXCEPT !.DnsPackets = @ + 1, !.UdpPackets = @ + 1]
      [] eventType = EVENT_TYPE_HTTP -> [total EXCEPT !.HttpPackets = @ + 1, !.TcpPackets = @ + 1]
      [] eventType = EVENT_TYPE_TLS  -> [total EXCEPT !.TlsPackets = @ + 1, !.TcpPackets = @ + 1]
      [] OTHER -> total

BumpStats(stats, eventType) ==
    LET total == [stats EXCEPT !.TotalPackets = @ + 1] IN
    CASE eventType = EVENT_TYPE_ARP  -> [total EXCEPT !.ArpPackets = @ + 1]
      [] eventType = EVENT_TYPE_TCP  -> [total EXCEPT !.TcpPackets = @ + 1]
      [] eventType = EVENT_TYPE_UDP  -> [total EXCEPT !.UdpPackets = @ + 1]
      [] eventType = EVENT_TYPE_ICMP -> [total EXCEPT !.IcmpPackets = @ + 1]
      [] eventType = EVENT_TYPE_DNS  -> [total EXCEPT !.DnsPackets = @ + 1]
      [] eventType = EVENT_TYPE_HTTP -> [total EXCEPT !.HttpPackets = @ + 1]
      [] eventType = EVENT_TYPE_TLS  -> [total EXCEPT !.TlsPackets = @ + 1]
      [] OTHER -> total

ClassifyTagAsService(evt, srcIP, dstIP) ==
    CASE evt.EventType = EVENT_TYPE_ARP ->
           LET tt == classifyARPTraffic(srcIP, dstIP, evt.ArpOp) IN
           [trafficType |-> tt, protocol |-> "ARP", service |-> tt, l7Info |-> <<>>]
      [] evt.EventType = EVENT_TYPE_TCP ->
           [trafficType |-> classifyTCPTraffic(srcIP, dstIP, evt.SrcPort, evt.DstPort, evt.TCPFlags),
            protocol |-> "TCP", service |-> getServiceName(evt.DstPort, "TCP"),
            l7Info |-> GetL7Info(evt)]
      [] evt.EventType = EVENT_TYPE_UDP ->
           [trafficType |-> classifyUDPTraffic(srcIP, dstIP, evt.SrcPort, evt.DstPort),
            protocol |-> "UDP", service |-> getServiceName(evt.DstPort, "UDP"),
            l7Info |-> GetL7Info(evt)]
      [] evt.EventType = EVENT_TYPE_ICMP ->
           LET tt == classifyICMPTraffic(evt.ICMPType, evt.ICMPCode) IN
           [trafficType |-> tt, protocol |-> "ICMP", service |-> tt, l7Info |-> <<>>]
      [] evt.EventType = EVENT_TYPE_DNS ->
           LET tt == classifyDNSTraffic(evt.L7Payload) IN
           [trafficType |-> tt, protocol |-> "DNS", service |-> tt, l7Info |-> GetL7Info(evt)]
      [] evt.EventType = EVENT_TYPE_HTTP ->
           LET tt == classifyHTTPTraffic(evt.L7Payload) IN
           [trafficType |-> tt, protocol |-> "HTTP", service |-> tt, l7Info |-> GetL7Info(evt)]
      [] evt.EventType = EVENT_TYPE_TLS ->
           LET tt == classifyTLSTraffic(evt.L7Payload) IN
           [trafficType |-> tt, protocol |-> "TLS", service |-> tt, l7Info |-> GetL7Info(evt)]
      [] OTHER ->
           [trafficType |-> "", protocol |-> "", service |-> "", l7Info |-> <<>>]

Classify(evt, srcIP, dstIP) ==
    CASE evt.EventType = EVENT_TYPE_ARP ->
           LET tt == classifyARPTraffic(srcIP, dstIP, evt.ArpOp) IN
           [trafficType |-> tt, protocol |-> "ARP", service |-> tt, l7Info |-> <<>>]
      [] evt.EventType = EVENT_TYPE_TCP ->
           [trafficType |-> classifyTCPTraffic(srcIP, dstIP, evt.SrcPort, evt.DstPort, evt.TCPFlags),
            protocol |-> "TCP", service |-> getServiceName(evt.DstPort, "TCP"),
            l7Info |-> GetL7Info(evt)]
      [] evt.EventType = EVENT_TYPE_UDP ->
           [trafficType |-> classifyUDPTraffic(srcIP, dstIP, evt.SrcPort, evt.DstPort),
            protocol |-> "UDP", service |-> getServiceName(evt.DstPort, "UDP"),
            l7Info |-> GetL7Info(evt)]
      [] evt.EventType = EVENT_TYPE_ICMP ->
           LET tt == classifyICMPTraffic(evt.ICMPType, evt.ICMPCode) IN
           [trafficType |-> tt, protocol |-> "ICMP", service |-> tt, l7Info |-> <<>>]
      [] evt.EventType = EVENT_TYPE_DNS ->
           [trafficType |-> classifyDNSTraffic(evt.L7Payload), protocol |-> "DNS",
            service |-> "DNS", l7Info |-> GetL7Info(evt)]
      [] evt.EventType = EVENT_TYPE_HTTP ->
           [trafficType |-> classifyHTTPTraffic(evt.L7Payload), protocol |-> "HTTP",
            service |-> "HTTP", l7Info |-> GetL7Info(evt)]
      [] evt.EventType = EVENT_TYPE_TLS ->
           [trafficType |-> classifyTLSTraffic(evt.L7Payload), protocol |-> "TLS",
            service |-> "TLS", l7Info |-> GetL7Info(evt)]
      [] OTHER ->
           [trafficType |-> "", protocol |-> "", service |-> "", l7Info |-> <<>>]

(* device == nil after the cache and the store were consulted *)
NewDeviceInfo(srcMAC, srcIP, t) ==
    [MAC |-> srcMAC, IP |-> srcIP, Vendor |-> lookupVendor(srcMAC),
     FirstSeen |-> t, LastSeen |-> t,
     RequestCount |-> 0, ReplyCount |-> 0, TCPConnections |-> 0, UDPConnections |-> 0,
     ICMPPackets |-> 0, DNSQueries |-> 0, HTTPRequests |-> 0, TLSConnections |-> 0,
     Targets |-> <<>>, Services |-> EmptyMap, DNSDomains |-> EmptyMap,
     HTTPHosts |-> EmptyMap, TLSSNIs |-> EmptyMap, SeenPatterns |-> {},
     TrafficTypeCounts |-> EmptyMap, FlowStats |-> EmptyMap]

IsNewDeviceIgnoringCache(found, inStore) == ~inStore

IsNewDeviceIgnoringStore(found, inStore) == ~found

(* isNew as TrackEvent computes it from the cache and store lookups *)
IsNewDevice(found, inStore) == ~found /\ ~inStore

UpdateInfoAnyAddress(device, srcIP, t) ==
    [device EXCEPT !.LastSeen = t, !.IP = srcIP]

UpdateInfo(device, srcIP, t) ==
    [device EXCEPT !.LastSeen = t,
                   !.IP = IF @ # srcIP /\ srcIP # "0.0.0.0" THEN srcIP ELSE @]

TrackL7Always(device, evt, l7Info) ==
    CASE evt.EventType = EVENT_TYPE_DNS ->
           [device EXCEPT !.DNSDomains = Bump(@, l7Info), !.DNSQueries = @ + 1]
      [] evt.EventType = EVENT_TYPE_HTTP ->
           [device EXCEPT !.HTTPHosts = Bump(@, l7Info), !.HTTPRequests = @ + 1]
      [] evt.EventType = EVENT_TYPE_TLS ->
           [device EXCEPT !.TLSSNIs = Bump(@, l7Info), !.TLSConnections = @ + 1]
      [] OTHER -> device

TrackL7(device, evt, l7Info) ==
    IF l7Info = <<>> THEN device
    ELSE CASE evt.EventType = EVENT_TYPE_DNS ->
                [device EXCEPT !.DNSDomains = Bump(@, l7Info), !.DNSQueries = @ + 1]
           [] evt.EventType = EVENT_TYPE_HTTP ->
                [device EXCEPT !.HTTPHosts = Bump(@, l7Info), !.HTTPRequests = @ + 1]
           [] evt.EventType = EVENT_TYPE_TLS ->
                [device EXCEPT !.TLSSNIs = Bump(@, l7Info), !.TLSConnections = @ + 1]
           [] OTHER -> device

TrackConnections(device, evt) ==
    CASE evt.EventType \in {EVENT_TYPE_TCP, EVENT_TYPE_HTTP, EVENT_TYPE_TLS} ->
           [device EXCEPT !.TCPConnections = @ + 1]
      [] evt.EventType \in {EVENT_TYPE_UDP, EVENT_TYPE_DNS} ->
           [device EXCEPT !.UDPConnections = @ + 1]
      [] evt.EventType = EVENT_TYPE_ICMP -> [device EXCEPT !.ICMPPackets = @ + 1]
      [] evt.EventType = EVENT_TYPE_ARP ->
           IF evt.ArpOp = 1 THEN [device EXCEPT !.RequestCount = @ + 1]
           ELSE [device EXCEPT !.ReplyCount = @ + 1]
      [] OTHER -> device

TrackTargetsUncapped(targets, dstIP) ==
    IF dstIP # "0.0.0.0" /\ ~Contains(targets, dstIP)
    THEN Append(targets, dstIP)
    ELSE targets

TrackTargetsDropNewest(targets, dstIP) ==
    IF dstIP # "0.0.0.0" /\ ~Contains(targets, dstIP)
    THEN LET appended == Append(targets, dstIP) IN
         IF Len(appended) > MaxTargets THEN SubSeq(appended, 1, MaxTargets) ELSE appended
    ELSE targets

TrackTargets(targets, dstIP) ==
    IF dstIP # "0.0.0.0" /\ ~Contains(targets, dstIP)
    THEN LET appended == Append(targets, dstIP) IN
         IF Len(appended) > MaxTargets THEN Tail(appended) ELSE appended
    ELSE targets

PatternKey(protocol, srcIP, dstIP, dstPort, trafficType) ==
    protocol \o ":" \o srcIP \o "->" \o dstIP \o ":" \o ToString(dstPort) \o ":" \o trafficType

MarkSeenNever(seen, patternKey) == seen

MarkSeenIfRoom(seen, patternKey) ==
    IF Len(newPatternChan) < PatternChanCap THEN seen \cup {patternKey} ELSE seen

MarkSeen(seen, patternKey) == seen \cup {patternKey}

(* select { case ch <- v: default: } on a buffered channel: the value is   *)
(* enqueued when there is room and dropped otherwise                       *)
\* streamPatterns: make(chan *models.CommunicationPattern, 100)
PatternClientCap == 100

TrySend(ch, v, capacity) == IF Len(ch) < capacity THEN Append(ch, v) ELSE ch

SelectReadyWithoutDefault(ch, capacity) == Len(ch) < capacity

(* whether the select statement can proceed: it has a default case *)
SelectReady(ch, capacity) == TRUE

(* buntdb: db.Update holds the database lock from the start of its        *)
(* transaction to the commit, and db.View waits for it                     *)
StoreLocked == pw.pc \in {"tx", "marshal"}

(* TrackEvent on a monitor given by its cache, counters, channels and     *)
(* pattern history: the locals of the Go function, each bound once in the  *)
(* order the code computes them, then the monitor's fields are assigned,   *)
(* those of the second monitor when second holds                           *)
Track(evt, cache, stats, patCh, devCh, log, second) ==
    \E srcMAC \in {MacToString(evt.SrcMac)} :
    \E srcIP \in {IPString(IntToIP(evt.SrcIP))} :
    \E dstIP \in {IPString(IntToIP(evt.DstIP))} :
    \E cls \in {Classify(evt, srcIP, dstIP)} :
    \E found \in {srcMAC \in CacheKeySet(cache)} :
    \E inStore \in {~found /\ "db" \notin closed /\ srcMAC \in DOMAIN db} :
    \E isNew \in {IsNewDevice(found, inStore)} :
    \E device0 \in {IF found THEN CacheValue(cache, srcMAC)
                    ELSE IF inStore THEN Unmarshal(db[srcMAC])
                    ELSE NewDeviceInfo(srcMAC, srcIP, now)} :
    \E device1 \in {UpdateInfo(device0, srcIP, now)} :
    \E device2 \in {[device1 EXCEPT !.TrafficTypeCounts = Bump(@, cls.trafficType),
                                     !.Services = Bump(@, cls.service)]} :
    \E device3 \in {TrackConnections(TrackL7(device2, evt, cls.l7Info), evt)} :
    \E device4 \in {[device3 EXCEPT !.Targets = TrackTargets(@, dstIP)]} :
    \E patternKey \in {PatternKey(cls.protocol, srcIP, dstIP, evt.DstPort, cls.trafficType)} :
    \E newPattern \in {patternKey \notin device4.SeenPatterns} :
    \E device \in {IF newPattern
                   THEN [device4 EXCEPT !.SeenPatterns = MarkSeen(@, patternKey)]
                   ELSE device4} :
    \E pattern \in {[SrcMAC |-> srcMAC, SrcIP |-> srcIP, DstIP |-> dstIP,
                     DstPort |-> evt.DstPort, Protocol |-> cls.protocol,
                     TrafficType |-> cls.trafficType, Service |-> cls.service,
                     Timestamp |-> now, L7Info |-> cls.l7Info]} :
    \E patternPanic \in {newPattern /\ "newPatternChan" \in closed} :
    \E devicePanic \in {isNew /\ ~patternPanic /\ "newDeviceChan" \in closed} :
    \E patChan \in {IF newPattern /\ ~patternPanic
                    THEN TrySend(patCh, pattern, PatternChanCap)
                    ELSE patCh} :
    \E added \in {IF patternPanic /\ ~found THEN cache
                  ELSE CacheAdd(CacheGet(cache, srcMAC), srcMAC, device, size)} :
    \E log0 \in {IF found THEN log[srcMAC] ELSE <<>>} :
    \E log1 \in {IF newPattern
                 THEN Append(log0, [key |-> patternKey, sent |-> patChan # patCh])
                 ELSE log0} :
    \E devChan \in {IF isNew /\ ~patternPanic /\ ~devicePanic
                    THEN TrySend(devCh, srcMAC, DeviceChanCap)
                    ELSE devCh} :
    \E logs \in {[m \in CacheKeySet(added) |-> IF m = srcMAC THEN log1 ELSE log[m]]} :
        IF second
        THEN twin' = <<[Cache |-> added, Stats |-> BumpStats(stats, evt.EventType),
                        newPatternChan |-> patChan, newDeviceChan |-> devChan,
                        patLog |-> logs]>>
        ELSE \* a cache miss reads the store; db.View waits for a running db.Update
             /\ found \/ ~StoreLocked
             /\ newPattern => SelectReady(patCh, PatternChanCap)
             /\ isNew => SelectReady(devCh, DeviceChanCap)
             /\ Stats' = BumpStats(stats, evt.EventType)
             /\ Cache' = added
             /\ newPatternChan' = patChan
             /\ newDeviceChan' = devChan
             /\ now' = now + 1
             /\ patLog' = logs
             /\ devAttempts' = IF isNew /\ ~patternPanic THEN devAttempts + 1 ELSE devAttempts
             \* a send on a channel that Close has closed panics: the process dies
             /\ main' = IF patternPanic \/ devicePanic
                        THEN [main EXCEPT !.pc = "crashed"]
                        ELSE main

(* the second monitor, when there is one, handles the same event at the    *)
(* same time                                                               *)
TrackEvent(evt) ==
    /\ Track(evt, Cache, Stats, newPatternChan, newDeviceChan, patLog, FALSE)
    /\ IF twin = <<>> THEN twin' = twin
       ELSE Track(evt, twin[1].Cache, twin[1].Stats, twin[1].newPatternChan,
                  twin[1].newDeviceChan, twin[1].patLog, TRUE)
    /\ UNCHANGED <<db, size>>

----------------------------------------------------------------------------
(* Raw samples the kernel side puts into the ring buffer *)

IPv4(a, b, c, d) == a + 256 * b + 65536 * c + 16777216 * d

MacVMware == <<0, 12, 41, 0, 0, 1>>
MacUnknown == <<170, 187, 204, 221, 238, 255>>
MacIoT == <<220, 98, 121, 47, 57, 40>>

ZeroEvent ==
    [EventType |-> 0, SrcMac |-> Zeros(6), DstMac |-> Zeros(6), SrcIP |-> 0, DstIP |-> 0,
     SrcPort |-> 0, DstPort |-> 0, Protocol |-> 0, TCPFlags |-> 0, ArpOp |-> 0,
     ArpSha |-> Zeros(6), ArpTha |-> Zeros(6), ICMPType |-> 0, ICMPCode |-> 0,
     L7Payload |-> Zeros(32)]

ArpProbe(mac) ==
    [ZeroEvent EXCEPT !.EventType = EVENT_TYPE_ARP, !.SrcMac = mac, !.ArpOp = 1,
                      !.ArpSha = mac, !.DstIP = IPv4(192, 168, 1, 50)]

TcpSyn(mac, dstPort) ==
    [ZeroEvent EXCEPT !.EventType = EVENT_TYPE_TCP, !.SrcMac = mac, !.Protocol = 6,
                      !.SrcIP = IPv4(192, 168, 0, 100), !.DstIP = IPv4(8, 8, 8, 8),
                      !.SrcPort = 51000, !.DstPort = dstPort, !.TCPFlags = 2]

UdpNtp(mac) ==
    [ZeroEvent EXCEPT !.EventType = EVENT_TYPE_UDP, !.SrcMac = mac, !.Protocol = 17,
                      !.SrcIP = IPv4(192, 168, 0, 101), !.DstIP = IPv4(192, 168, 0, 1),
                      !.SrcPort = 40000, !.DstPort = 123]

IcmpEcho(mac) ==
    [ZeroEvent EXCEPT !.EventType = EVENT_TYPE_ICMP, !.SrcMac = mac, !.Protocol = 1,
                      !.SrcIP = IPv4(192, 168, 0, 101), !.DstIP = IPv4(8, 8, 8, 8),
                      !.ICMPType = 8]

DnsQuery(mac) ==
    [ZeroEvent EXCEPT !.EventType = EVENT_TYPE_DNS, !.SrcMac = mac, !.Protocol = 17,
                      !.SrcIP = IPv4(192, 168, 0, 100), !.DstIP = IPv4(8, 8, 8, 8),
                      !.SrcPort = 54321, !.DstPort = 53,
                      !.L7Payload = Pad(<<0, 1, 1, 0, 0, 1, 0, 0, 0, 0, 0, 0, 6, 103, 111,
                                          111, 103, 108, 101, 3, 99, 111, 109, 0>>, 32)]

HttpGet(mac) ==
    [ZeroEvent EXCEPT !.EventType = EVENT_TYPE_HTTP, !.SrcMac = mac, !.Protocol = 6,
                      !.SrcIP = IPv4(192, 168, 0, 101), !.DstIP = IPv4(192, 168, 0, 1),
                      !.SrcPort = 51001, !.DstPort = 80, !.TCPFlags = 24,
                      !.L7Payload = Pad(<<71, 69, 84, 32, 47, 105, 32, 72, 84, 84, 80, 47,
                                          49, 46, 49, 13, 10>>, 32)]

TlsHello(mac) ==
    [ZeroEvent EXCEPT !.EventType = EVENT_TYPE_TLS, !.SrcMac = mac, !.Protocol = 6,
                      !.SrcIP = IPv4(192, 168, 0, 102), !.DstIP = IPv4(8, 8, 8, 8),
                      !.SrcPort = 51002, !.DstPort = 443, !.TCPFlags = 24,
                      !.L7Payload = Pad(<<22, 3, 3, 0, 60, 1>>, 32)]

(* a record as the current classifier emits it: the 75 parsed bytes and a  *)
(* 4-byte tail the parser does not read                                    *)
Sample(e) == network_event(e) \o Zeros(ExpectedSize - RecordSize)

Samples ==
    { Sample(ArpProbe(MacVMware)), Sample(TcpSyn(MacVMware, 443)),
      Sample(DnsQuery(MacVMware)),
      Sample(TcpSyn(MacUnknown, 443)), Sample(HttpGet(MacUnknown)),
      Sample(IcmpEcho(MacUnknown)),
      Sample(UdpNtp(MacIoT)), Sample(TlsHello(MacIoT)), Sample(TcpSyn(MacIoT, 9999)),
      Zeros(ExpectedSize),
      network_event(TcpSyn(MacUnknown, 22)),
      SubSeq(network_event(TcpSyn(MacVMware, 443)), 1, RecordSize - 1) }

(* traffic mixes: one device showing two patterns, two devices showing    *)
(* the same pattern, and three devices showing one pattern each            *)
OneDeviceMix ==
    { Sample(TcpSyn(MacVMware, 443)), Sample(DnsQuery(MacVMware)) }

TwoDeviceMix ==
    { Sample(TcpSyn(MacVMware, 443)), Sample(TcpSyn(MacUnknown, 443)) }

ThreeDeviceMix ==
    { Sample(ArpProbe(MacVMware)), Sample(HttpGet(MacUnknown)), Sample(UdpNtp(MacIoT)) }

(* Records that exercise the classification and the layer-7 peek: TCP     *)
(* events over every combination of the five flag bits and four            *)
(* destination ports, ARP events over unspecified, equal and different     *)
(* addresses and four operations, ICMP types, and DNS, HTTP and TLS events *)
(* with peeks of several shapes. Every host sends one of them, over and    *)
(* over.                                                                   *)
ClassifyMixes ==
    LET
        Tcp(dstPort, flags) == [TcpSyn(MacVMware, dstPort) EXCEPT !.TCPFlags = flags]

        Arp(srcIP, dstIP, op) ==
            [ZeroEvent EXCEPT !.EventType = EVENT_TYPE_ARP, !.SrcMac = MacVMware,
                              !.ArpSha = MacVMware, !.SrcIP = srcIP, !.DstIP = dstIP,
                              !.ArpOp = op]

        Icmp(type) == [IcmpEcho(MacUnknown) EXCEPT !.ICMPType = type]

        Dns(flags, question) ==
            [DnsQuery(MacIoT) EXCEPT
                !.L7Payload = Pad(<<0, 1>> \o flags \o <<0, 1, 0, 0, 0, 0, 0, 0>> \o question, 32)]

        Http(line) == [HttpGet(MacUnknown) EXCEPT !.L7Payload = Pad(line, 32)]

        Tls(record) == [TlsHello(MacIoT) EXCEPT !.L7Payload = Pad(record, 32)]

        Addresses == {0, IPv4(192, 168, 0, 100), IPv4(192, 168, 0, 1)}

        Questions ==
            { <<6, 103, 111, 111, 103, 108, 101, 3, 99, 111, 109, 0>>,   \* google.com
              <<0, 3, 119, 119, 119>>,                       \* root first
              <<64>> \o [i \in 1..19 |-> 97],                \* length above 63
              <<3, 119, 119, 119, 16>> \o [i \in 1..15 |-> 97],  \* label past the peek
              <<3, 119, 119, 119, 200, 97, 97>>,             \* compression pointer
              <<19>> \o [i \in 1..19 |-> 97],                \* label ends with the peek
              <<20>> \o [i \in 1..19 |-> 97],                \* one byte too long
              [i \in 1..20 |-> 1],                           \* ten one-byte labels
              <<3, 119, 119, 119, 15>> \o [i \in 1..15 |-> 97] }

        Lines ==
            { <<71, 69, 84, 32, 47, 105, 32, 72, 84, 84, 80, 47, 49, 46, 49, 13, 10>>,
              <<71, 69, 84, 32>>,                                          \* "GET "
              <<71, 69, 84, 32>> \o [i \in 1..28 |-> IF i % 4 = 1 THEN 47 ELSE 97],
              <<80, 79, 83, 84, 32, 47, 115, 32, 72, 84, 84, 80>>,         \* "POST /s HTTP"
              <<72, 69, 65, 68, 32, 47, 32, 72, 84, 84, 80>>,              \* "HEAD / HTTP"
              <<80, 85, 84, 32, 47, 112, 13, 10>>,                         \* "PUT /p\r\n"
              <<68, 69, 76, 69, 84, 69, 32, 47, 120, 32, 72>>,             \* "DELETE /x H"
              <<68, 69, 76, 69, 71, 65, 84, 69, 32, 47>> }                 \* "DELEGATE /"

        Events ==
            {Tcp(dstPort, flags) : dstPort \in {80, 443, 22, 9999}, flags \in 0..31}
                \cup {Arp(srcIP, dstIP, op) : srcIP \in Addresses, dstIP \in Addresses,
                                              op \in 0..3}
                \cup {Icmp(type) : type \in {0, 3, 5, 8, 11, 13}}
                \cup {Dns(flags, question) : flags \in {<<1, 0>>, <<129, 128>>},
                                             question \in Questions}
                \cup {Http(line) : line \in Lines}
                \cup {Tls(record) : record \in {<<22, 3, 3, 0, 60, 1>>, <<22, 3, 3, 0, 60, 2>>,
                                                <<22, 3, 3, 0, 60, 11>>, <<23, 3, 3, 0, 60, 1>>}}
    IN
        { {Sample(e)} : e \in Events }

(* Frames on the wire. The traffic of one interface: each mix holds       *)
(* complete and truncated frames of the monitored protocols and frames the *)
(* classifier ignores; CutAfter cuts a frame off 4 bytes into the header   *)
(* that follows its first n bytes.                                         *)
FrameMixes ==
    LET
        Broadcast == <<255, 255, 255, 255, 255, 255>>

        EthFrame(dst, src, proto, body) == dst \o src \o <<proto \div 256, proto % 256>> \o body

        ArpPacket(op, sha, spa, tha, tpa) ==
            <<0, 1, 8, 0, 6, 4, op \div 256, op % 256>> \o sha \o spa \o tha \o tpa

        IpPacket(protocol, saddr, daddr, body) ==
            <<69, 0, 0, 0, 0, 0, 0, 0, 64, protocol, 0, 0>> \o saddr \o daddr \o body

        TcpSegment(source, dest, flags, payload) ==
            <<source \div 256, source % 256, dest \div 256, dest % 256, 0, 0, 0, 0, 0, 0, 0, 0,
              80, flags, 0, 0, 0, 0, 0, 0>> \o payload

        UdpDatagram(source, dest, payload) ==
            <<source \div 256, source % 256, dest \div 256, dest % 256, 0, 0, 0, 0>> \o payload

        ArpRequestFrame ==
            EthFrame(Broadcast, MacVMware, ETH_P_ARP,
                     ArpPacket(1, MacVMware, <<192, 168, 0, 100>>, Zeros(6), <<192, 168, 0, 1>>))

        TokenRingArpFrame ==
            EthFrame(Broadcast, MacVMware, ETH_P_ARP,
                     <<0, 6>> \o Tail(Tail(ArpPacket(1, MacVMware, <<192, 168, 0, 100>>, Zeros(6),
                                                     <<192, 168, 0, 1>>))))

        TcpSynFrame ==
            EthFrame(MacIoT, MacVMware, ETH_P_IP,
                     IpPacket(PROTO_TCP, <<192, 168, 0, 100>>, <<8, 8, 8, 8>>,
                              TcpSegment(51000, 443, 2, <<>>)))

        HttpGetFrame ==
            EthFrame(MacIoT, MacUnknown, ETH_P_IP,
                     IpPacket(PROTO_TCP, <<192, 168, 0, 101>>, <<192, 168, 0, 1>>,
                              TcpSegment(51001, 80, 24,
                                         <<71, 69, 84, 32, 47, 105, 32, 72, 84, 84, 80, 47,
                                           49, 46, 49, 13, 10>>)))

        TlsHelloFrame ==
            EthFrame(MacVMware, MacIoT, ETH_P_IP,
                     IpPacket(PROTO_TCP, <<192, 168, 0, 102>>, <<8, 8, 8, 8>>,
                              TcpSegment(51002, 443, 24, <<22, 3, 3, 0, 60, 1>>)))

        DnsQueryFrame ==
            EthFrame(MacIoT, MacVMware, ETH_P_IP,
                     IpPacket(PROTO_UDP, <<192, 168, 0, 100>>, <<8, 8, 8, 8>>,
                              UdpDatagram(54321, 53,
                                          <<0, 1, 1, 0, 0, 1, 0, 0, 0, 0, 0, 0, 6, 103, 111,
                                            111, 103, 108, 101, 3, 99, 111, 109, 0>>)))

        IcmpEchoFrame ==
            EthFrame(MacIoT, MacUnknown, ETH_P_IP,
                     IpPacket(PROTO_ICMP, <<192, 168, 0, 101>>, <<8, 8, 8, 8>>,
                              <<8, 0, 0, 0, 0, 1, 0, 1>>))

        GreFrame ==
            EthFrame(MacIoT, MacUnknown, ETH_P_IP,
                     IpPacket(47, <<192, 168, 0, 101>>, <<8, 8, 8, 8>>, Zeros(24)))

        Ipv6Frame == EthFrame(MacIoT, MacUnknown, 34525, Zeros(60))

        RuntFrame == SubSeq(TcpSynFrame, 1, 14 - 1)

        CutAfter(frame, n) == SubSeq(frame, 1, n + 4)
    IN
        { { ArpRequestFrame, TokenRingArpFrame, CutAfter(ArpRequestFrame, 14 + 8),
            Ipv6Frame },
          { TcpSynFrame, HttpGetFrame, TlsHelloFrame,
            CutAfter(TcpSynFrame, 14 + 20) },
          { DnsQueryFrame, IcmpEchoFrame, GreFrame, CutAfter(DnsQueryFrame, 14),
            RuntFrame } }

(* Frames that exercise the layer-7 upgrade and every field of the record: *)
(* TCP segments over the HTTP and TLS ports and other ports with request   *)
(* lines, TLS records and other payloads of several lengths, UDP datagrams *)
(* to and from the DNS port, ICMP messages and an ARP reply. Every         *)
(* interface sees one of them, over and over.                              *)
WireMixes ==
    LET
        Eth(proto, body) ==
            MacIoT \o MacVMware \o <<proto \div 256, proto % 256>> \o body

        Ip(protocol, body) ==
            <<69, 0, 0, 0, 0, 0, 0, 0, 64, protocol, 0, 0, 192, 168, 0, 100, 10, 1, 2, 3>>
                \o body

        Tcp(ports, flags, payload) ==
            Eth(ETH_P_IP,
                Ip(PROTO_TCP,
                   <<ports[1] \div 256, ports[1] % 256, ports[2] \div 256, ports[2] % 256,
                     0, 0, 0, 0, 0, 0, 0, 0, 80, flags, 0, 0, 0, 0, 0, 0>> \o payload))

        Udp(ports, payload) ==
            Eth(ETH_P_IP,
                Ip(PROTO_UDP,
                   <<ports[1] \div 256, ports[1] % 256, ports[2] \div 256, ports[2] % 256,
                     0, 0, 0, 0>> \o payload))

        Icmp(type, code) == Eth(ETH_P_IP, Ip(PROTO_ICMP, <<type, code, 0, 0, 0, 1, 0, 1>>))

        ArpReply ==
            Eth(ETH_P_ARP,
                <<0, 1, 8, 0, 6, 4, 0, 2>> \o MacVMware \o <<192, 168, 0, 100>>
                    \o MacUnknown \o <<192, 168, 0, 1>>)

        TcpPorts ==
            { <<51000, 80>>, <<8080, 51000>>, <<51000, 8080>>, <<51000, 443>>,
              <<8443, 51000>>, <<443, 51000>>, <<80, 443>>, <<51000, 9999>> }

        Payloads ==
            { <<71, 69, 84, 32, 47, 32, 72, 84, 84, 80>>,       \* "GET / HTTP"
              <<80, 79, 83, 84, 32, 47, 120>>,                  \* "POST /x"
              <<72, 69, 65, 68>>,                               \* "HEAD"
              <<80, 85, 84, 32, 47>>,                           \* "PUT /"
              <<68, 69, 76, 69>>,                               \* "DELE"
              <<79, 80, 84, 73, 79, 78, 83, 32, 42>>,           \* "OPTIONS *"
              <<71, 69, 84>>,                                   \* "GET"
              <<80, 85, 84, 47, 32, 47>>,                       \* "PUT/ /"
              <<22, 3, 1, 0, 60, 1, 0, 0, 56, 3, 3>>,           \* TLS 1.0 record
              <<22, 3, 4, 0, 60, 2>>,                           \* TLS 1.3 version byte
              <<22, 3, 0, 0, 60, 1>>,                           \* SSL 3.0
              <<22, 3, 5, 0, 60, 1>>,                           \* version byte above 4
              <<22, 2, 1, 0, 60, 1>>,                           \* major version 2
              <<23, 3, 3, 0, 60, 1>>,                           \* application data
              <<22, 3, 3, 0>>,                                  \* 4 bytes of a record
              [i \in 1..40 |-> 64 + i],                         \* longer than the peek
              <<>> }

        UdpPorts == { <<54321, 53>>, <<53, 54321>>, <<40000, 123>>, <<5353, 5353>> }

        Frames ==
            {Tcp(ports, 24, payload) : ports \in TcpPorts, payload \in Payloads}
                \cup {Udp(ports, <<0, 1, 1, 0, 0, 1>>) : ports \in UdpPorts}
                \cup {Icmp(8, 0), Icmp(3, 1), ArpReply}
    IN
        { {frame} : frame \in Frames }

(* scripted traffic of one host: traffic[k] is the k-th frame it sends.    *)
(* A sweep over distinct destinations, a sweep that afterwards returns to  *)
(* an address already dropped from the window, a sweep with repeated and   *)
(* unspecified destinations, and one frame sent over and over.             *)
Probe(dstIP) == Sample([TcpSyn(MacVMware, 443) EXCEPT !.DstIP = dstIP])

SweepScript == [k \in 1..ScriptLen |-> Probe(IPv4(192, 168, 0, k))]

RevisitScript ==
    [k \in 1..ScriptLen |->
        Probe(IF k = MaxTargets + 2 THEN IPv4(192, 168, 0, 1)
              ELSE IF k = MaxTargets + 3 THEN 0
              ELSE IF k = MaxTargets + 4 THEN IPv4(192, 168, 0, MaxTargets + 1)
              ELSE IPv4(192, 168, 0, k))]

StutterScript ==
    [k \in 1..ScriptLen |->
        Probe(IF k % 3 = 0 THEN 0
              ELSE IF k % 3 = 2 THEN IPv4(192, 168, 0, k - 1)
              ELSE IPv4(192, 168, 0, k))]

RepeatScript == [k \in 1..ScriptLen |-> Sample(TcpSyn(MacVMware, 443))]

----------------------------------------------------------------------------
(* State machine *)

ZeroStats ==
    [TotalPackets |-> 0, ArpPackets |-> 0, TcpPackets |-> 0, UdpPackets |-> 0,
     IcmpPackets |-> 0, DnsPackets |-> 0, HttpPackets |-> 0, TlsPackets |-> 0]

InitMonitor(mixes, sizes) ==
    /\ traffic \in mixes
    /\ ring = <<>>
    /\ submitted = 0
    /\ eventCount = 0
    /\ size \in sizes
    /\ Cache = <<>>
    /\ db = EmptyMap
    /\ Stats = ZeroStats
    /\ newDeviceChan = <<>>
    /\ newPatternChan = <<>>
    /\ now = 1
    /\ pw = [pc |-> "idle", keys |-> <<>>, buf |-> <<>>]
    /\ ticks = 0
    /\ patLog = EmptyMap
    /\ devAttempts = 0
    /\ tornRead = FALSE
    /\ held = <<>>
    /\ verdicts = <<>>
    /\ patternClients = EmptyMap
    /\ mu = "free"
    /\ reply = <<>>

(* main has attached the classifier to every interface, started its       *)
(* goroutines and waits for a signal                                       *)
Monitoring ==
    /\ main = [pc |-> "wait", idx |-> NumIfaces + 1,
               links |-> [i \in 1..NumIfaces |-> i],
               defers |-> <<"mon.Close", "coll.Close", "cleanup", "reader.Close",
                            "debugTicker.Stop", "statsTicker.Stop">>]
    /\ binding = [i \in 1..NumIfaces |-> [state |-> "Attached", detaches |-> 0]]
    /\ closed = {}

InitWith(mixes, sizes) == InitMonitor(mixes, sizes) /\ Monitoring /\ twin = <<>>

(* one or two devices in front of a cache of any size up to MaxCacheSize *)
Init == InitWith({OneDeviceMix, TwoDeviceMix}, 1..MaxCacheSize)

(* three devices in front of a cache of MaxCacheSize entries *)
InitThree == InitWith({ThreeDeviceMix}, {MaxCacheSize})

InitIngest == InitWith({Samples}, 1..MaxCacheSize)

(* kernel classifier: reserve a ring-buffer slot, fill it, submit it; a    *)
(* failed reservation drops the event                                      *)
Submit(sample) ==
    /\ sample \in traffic
    /\ submitted < MaxEvents
    /\ submitted' = submitted + 1
    /\ ring' = IF Len(ring) < MaxRing THEN Append(ring, sample) ELSE ring
    /\ UNCHANGED <<traffic, eventCount, size, Cache, db, Stats, newDeviceChan,
                   newPatternChan, now, pw, ticks, patLog, devAttempts, tornRead,
                   main, binding, closed, held, verdicts, patternClients, twin, mu,
                   reply>>

(* the classifier attached to an interface handling one frame *)
OnPacket(skb) ==
    /\ skb \in traffic
    /\ submitted < MaxEvents
    /\ submitted' = submitted + 1
    /\ \E out \in {xdp_arp_monitor(skb, ring)} :
          /\ ring' = out.ring
          /\ verdicts' = Append(verdicts, out.ret)
    /\ UNCHANGED <<traffic, eventCount, size, Cache, db, Stats, newDeviceChan,
                   newPatternChan, now, pw, ticks, patLog, devAttempts, tornRead,
                   main, binding, closed, held, patternClients, twin, mu,
                   reply>>

bpf_ringbuf_submit_lifo(r, e) == <<e>> \o r

(* bpf_ringbuf_submit: the record becomes the newest one of the ring *)
bpf_ringbuf_submit(r, e) == Append(r, e)

(* the classifier handling the next frame of a scripted host, which sends  *)
(* no faster than the ring has room                                        *)
SubmitScript ==
    /\ submitted < Len(traffic)
    /\ Len(ring) < MaxBacklog
    /\ submitted' = submitted + 1
    /\ ring' = bpf_ringbuf_submit(ring, traffic[submitted + 1])
    /\ UNCHANGED <<traffic, eventCount, size, Cache, db, Stats, newDeviceChan,
                   newPatternChan, now, pw, ticks, patLog, devAttempts, tornRead,
                   main, binding, closed, held, verdicts, patternClients, twin, mu,
                   reply>>

(* one iteration of the event processor goroutine of main *)
EventProcessor(expectedSize) ==
    /\ ring # <<>>
    /\ ring' = Tail(ring)
    /\ eventCount' = eventCount + 1
    /\ IF Len(Head(ring)) < expectedSize
       THEN UNCHANGED <<size, Cache, db, Stats, newDeviceChan, newPatternChan, now,
                        patLog, devAttempts, main, twin>>
       ELSE \E evt \in {ParseNetworkEvent(Head(ring))} : TrackEvent(evt)
    /\ UNCHANGED <<traffic, submitted, pw, ticks, tornRead, binding, closed, held, verdicts,
                 patternClients, mu, reply>>

(* the loop over ringbuf.Reader, which expects the records of cerberus_tc  *)
ProcessRecord == EventProcessor(ExpectedSize)

(* the loop over the libbpfgo events channel, which expects the records of *)
(* monitor_xdp                                                             *)
ProcessEvent == EventProcessor(RecordSize)

(* the event processor in two steps, as the other goroutines see it: it   *)
(* takes a record from the reader, and later it checks, parses and         *)
(* ingests that record                                                     *)
ReaderRead ==
    /\ main.pc \in {"wait", "return"}
    /\ "reader" \notin closed
    /\ held = <<>>
    /\ ring # <<>>
    /\ held' = <<Head(ring)>>
    /\ ring' = Tail(ring)
    /\ eventCount' = eventCount + 1
    /\ UNCHANGED <<traffic, submitted, size, Cache, db, Stats, newDeviceChan,
                   newPatternChan, now, pw, ticks, patLog, devAttempts, tornRead,
                   main, binding, closed, verdicts, patternClients, twin, mu,
                   reply>>

HandleRecord ==
    /\ main.pc \in {"wait", "return"}
    /\ held # <<>>
    /\ held' = <<>>
    \* TrackEvent: defer nm.mu.Unlock()
    /\ mu' = "free"
    /\ IF Len(held[1]) < ExpectedSize
       THEN UNCHANGED <<size, Cache, db, Stats, newDeviceChan, newPatternChan, now,
                        patLog, devAttempts, main, twin>>
       ELSE \E evt \in {ParseNetworkEvent(held[1])} : TrackEvent(evt)
    /\ UNCHANGED <<traffic, ring, submitted, eventCount, pw, ticks, tornRead, binding,
                   closed, verdicts, patternClients, reply>>

(* persistWorker: one ticker round *)
PersistTick ==
    /\ pw.pc = "idle"
    \* nm.mu.RLock() around Cache.Keys()
    /\ mu = "free"
    /\ ticks < MaxTicks
    /\ ticks' = ticks + 1
    /\ pw' = [pc |-> "keys", keys |-> CacheKeys(Cache), buf |-> <<>>]
    /\ UNCHANGED <<traffic, ring, submitted, eventCount, size, Cache, db, Stats, newDeviceChan,
                   newPatternChan, now, patLog, devAttempts, tornRead,
                   main, binding, closed, held, verdicts, patternClients, twin, mu,
                   reply>>

PersistBegin ==
    /\ pw.pc = "keys"
    \* on a closed database db.Update returns an error and runs nothing
    /\ pw' = IF "db" \in closed THEN [pc |-> "idle", keys |-> <<>>, buf |-> <<>>]
             ELSE [pw EXCEPT !.pc = "tx"]
    /\ UNCHANGED <<traffic, ring, submitted, eventCount, size, Cache, db, Stats, newDeviceChan,
                   newPatternChan, now, ticks, patLog, devAttempts, tornRead,
                   main, binding, closed, held, verdicts, patternClients, twin, mu,
                   reply>>

(* fields json.Marshal has encoded when the goroutine is preempted, in     *)
(* struct order; the maps that follow are read afterwards                  *)
HeadFields ==
    {"MAC", "IP", "Vendor", "FirstSeen", "LastSeen", "RequestCount", "ReplyCount",
     "TCPConnections", "UDPConnections", "ICMPPackets", "DNSQueries", "HTTPRequests",
     "TLSConnections", "Targets"}

MarshalRacyWithTransient(before, current) ==
    [f \in JSONFields \cup {"SeenPatterns", "FlowStats"} |->
        IF f \in HeadFields THEN before[f] ELSE current[f]]

MarshalRacy(before, current) ==
    [f \in JSONFields |-> IF f \in HeadFields THEN before[f] ELSE current[f]]

CacheReadUnderMonitorLock == mu = "free"

(* nm.Cache.Get inside db.Update: the worker released nm.mu after Keys()   *)
(* and the cache read takes only the cache's own lock                      *)
CacheReadReady == TRUE

PersistGet ==
    /\ pw.pc = "tx"
    /\ pw.keys # <<>>
    /\ CacheReadReady
    /\ LET mac == Head(pw.keys) IN
       IF mac \in CacheKeySet(Cache)
       THEN /\ Cache' = CacheGet(Cache, mac)
            /\ pw' = [pw EXCEPT !.pc = "marshal", !.buf = <<CacheValue(Cache, mac)>>]
       ELSE /\ pw' = [pw EXCEPT !.keys = Tail(@)]
            /\ UNCHANGED Cache
    /\ UNCHANGED <<traffic, ring, submitted, eventCount, size, db, Stats, newDeviceChan,
                   newPatternChan, now, ticks, patLog, devAttempts, tornRead,
                   main, binding, closed, held, verdicts, patternClients, twin, mu,
                   reply>>

PersistSet ==
    /\ pw.pc = "marshal"
    /\ LET mac == Head(pw.keys)
           before == pw.buf[1]
           current == CacheValue(Cache, mac)
           data == MarshalRacy(before, current)
       IN /\ db' = [m \in DOMAIN db \cup {mac} |-> IF m = mac THEN data ELSE db[m]]
          /\ tornRead' = (tornRead \/ data \notin {Marshal(before), Marshal(current)})
    /\ pw' = [pc |-> "tx", keys |-> Tail(pw.keys), buf |-> <<>>]
    /\ UNCHANGED <<traffic, ring, submitted, eventCount, size, Cache, Stats, newDeviceChan,
                   newPatternChan, now, ticks, patLog, devAttempts,
                   main, binding, closed, held, verdicts, patternClients, twin, mu,
                   reply>>

PersistCommit ==
    /\ pw.pc = "tx"
    /\ pw.keys = <<>>
    /\ pw' = [pw EXCEPT !.pc = "idle"]
    /\ UNCHANGED <<traffic, ring, submitted, eventCount, size, Cache, db, Stats, newDeviceChan,
                   newPatternChan, now, ticks, patLog, devAttempts, tornRead,
                   main, binding, closed, held, verdicts, patternClients, twin, mu,
                   reply>>

(* GetStats: under the read lock, Keys() and then Get() of every key *)
RECURSIVE GetAll(_, _)
GetAll(c, keys) == IF keys = <<>> THEN c ELSE GetAll(CacheGet(c, Head(keys)), Tail(keys))

GetStats(c) == GetAll(c, CacheKeys(c))

(* stats printer goroutine of main: one 60 s tick *)
PrintStats ==
    \* GetStats: nm.mu.RLock()
    /\ mu = "free"
    /\ Cache' = GetStats(Cache)
    /\ UNCHANGED <<traffic, ring, submitted, eventCount, size, db, Stats, newDeviceChan,
                   newPatternChan, now, pw, ticks, patLog, devAttempts, tornRead,
                   main, binding, closed, held, verdicts, patternClients, twin, mu,
                   reply>>

newDeviceNotifier ==
    /\ newDeviceChan # <<>>
    /\ newDeviceChan' = Tail(newDeviceChan)
    /\ UNCHANGED <<traffic, ring, submitted, eventCount, size, Cache, db, Stats, newPatternChan,
                   now, pw, ticks, patLog, devAttempts, tornRead,
                   main, binding, closed, held, verdicts, patternClients, twin, mu,
                   reply>>

newPatternNotifier ==
    /\ newPatternChan # <<>>
    /\ newPatternChan' = Tail(newPatternChan)
    /\ Cache' = CacheGet(Cache, Head(newPatternChan).SrcMAC)
    /\ UNCHANGED <<traffic, ring, submitted, eventCount, size, db, Stats, newDeviceChan,
                   now, pw, ticks, patLog, devAttempts, tornRead,
                   main, binding, closed, held, verdicts, patternClients, twin, mu,
                   reply>>

(* Server.BroadcastPattern: a non-blocking send to the channel of every    *)
(* SSE client. No function of the program calls it.                        *)
BroadcastPattern(clients, pattern) ==
    [c \in DOMAIN clients |->
        [clients[c] EXCEPT !.ch = TrySend(@, pattern, PatternClientCap)]]

(* GET /patterns/stream: the handler makes the client's own channel and    *)
(* registers it under the client's id                                      *)
streamPatterns ==
    /\ \E clientID \in 1..MaxClients :
          /\ clientID \notin DOMAIN patternClients
          /\ patternClients' = patternClients @@ (clientID :> [since |-> now, ch |-> <<>>])
    /\ UNCHANGED <<traffic, ring, submitted, eventCount, size, Cache, db, Stats, newDeviceChan,
                   newPatternChan, now, pw, ticks, patLog, devAttempts, tornRead,
                   main, binding, closed, held, verdicts, twin, mu, reply>>

(* the handler's deferred function: the client is deleted and its channel  *)
(* closed, which ends the stream writer's range loop                       *)
streamPatternsReturn ==
    /\ \E clientID \in DOMAIN patternClients :
          patternClients' = [c \in DOMAIN patternClients \ {clientID} |-> patternClients[c]]
    /\ UNCHANGED <<traffic, ring, submitted, eventCount, size, Cache, db, Stats, newDeviceChan,
                   newPatternChan, now, pw, ticks, patLog, devAttempts, tornRead,
                   main, binding, closed, held, verdicts, twin, mu, reply>>

(* TrackEvent: nm.mu.Lock() on entry. The function then runs to its end    *)
(* holding the write lock, and waits inside it for the store's lock when   *)
(* the device is not in the cache (HandleRecord is the rest of the call).  *)
TrackEventLock ==
    /\ held # <<>>
    /\ Len(held[1]) >= ExpectedSize
    /\ mu = "free"
    /\ mu' = "TrackEvent"
    /\ UNCHANGED <<traffic, ring, submitted, eventCount, size, Cache, db, Stats, newDeviceChan,
                   newPatternChan, now, pw, ticks, patLog, devAttempts, tornRead,
                   main, binding, closed, held, verdicts, patternClients, twin,
                   reply>>

(* GET /devices/{mac}, /devices/{mac}/patterns, /dns and /services: each   *)
(* handler upper-cases the path parameter and looks it up in the cache     *)
getDevice ==
    /\ \E handler \in {"getDevice", "getDevicePatterns", "getDeviceDNS", "getDeviceServices"} :
       \E m \in {MacVMware, MacUnknown, <<0, 17, 34, 51, 68, 85>>} :
       \E param \in {MacToString(m), ToUpper(MacToString(m))} :
       \E mac \in {ToUpper(param)} :
          /\ Cache' = CacheGet(Cache, mac)
          /\ reply' = [handler |-> handler, param |-> param,
                       status |-> IF mac \in CacheKeySet(Cache) THEN 200 ELSE 404]
    /\ UNCHANGED <<traffic, ring, submitted, eventCount, size, db, Stats, newDeviceChan,
                   newPatternChan, now, pw, ticks, patLog, devAttempts, tornRead,
                   main, binding, closed, held, verdicts, patternClients, mu, twin>>

(* main: the loop over the interfaces; link.AttachTCX succeeds or fails *)
AttachNext ==
    /\ main.pc = "attach"
    /\ main.idx <= NumIfaces
    /\ \E attached \in BOOLEAN :
          IF attached
          THEN /\ binding' = [binding EXCEPT ![main.idx].state = "Attached"]
               /\ main' = [main EXCEPT !.idx = @ + 1, !.links = Append(@, main.idx)]
          ELSE /\ main' = [main EXCEPT !.idx = @ + 1]
               /\ UNCHANGED binding
    /\ UNCHANGED <<traffic, ring, submitted, eventCount, size, Cache, db, Stats, newDeviceChan,
                   newPatternChan, now, pw, ticks, patLog, devAttempts, tornRead,
                   closed, held, verdicts, patternClients, twin, mu, reply>>

(* main: after the loop it panics when nothing was attached, and else     *)
(* defers the cleanup, opens the reader, starts the tickers and the event  *)
(* processor and waits for a signal                                        *)
StartMonitoring ==
    /\ main.pc = "attach"
    /\ main.idx > NumIfaces
    /\ main' = IF Len(main.links) = 0 THEN [main EXCEPT !.pc = "panic"]
               ELSE [main EXCEPT !.pc = "wait",
                                 !.defers = @ \o <<"cleanup", "reader.Close",
                                                   "debugTicker.Stop", "statsTicker.Stop">>]
    /\ UNCHANGED <<traffic, ring, submitted, eventCount, size, Cache, db, Stats, newDeviceChan,
                   newPatternChan, now, pw, ticks, patLog, devAttempts, tornRead,
                   binding, closed, held, verdicts, patternClients, twin, mu,
                   reply>>

(* main: SIGINT or SIGTERM arrives; the final statistics are printed *)
Signal ==
    /\ main.pc = "wait"
    /\ main' = [main EXCEPT !.pc = "return"]
    /\ Cache' = GetStats(Cache)
    /\ UNCHANGED <<traffic, ring, submitted, eventCount, size, db, Stats, newDeviceChan,
                   newPatternChan, now, pw, ticks, patLog, devAttempts, tornRead,
                   binding, closed, held, verdicts, patternClients, twin, mu,
                   reply>>

CleanupEveryInterface(b, links) ==
    [i \in DOMAIN b |-> [state |-> "Detached", detaches |-> b[i].detaches + 1]]

(* the deferred cleanup: l.Close() for every link of the slice *)
RECURSIVE Cleanup(_, _)
Cleanup(b, links) ==
    IF links = <<>> THEN b
    ELSE Cleanup([b EXCEPT ![Head(links)] =
                        [state |-> "Detached", detaches |-> @.detaches + 1]],
                 Tail(links))

(* main returns or panics: the deferred calls run, last deferred first.    *)
(* mon.Close closes both channels and then the database, which waits for   *)
(* a running transaction.                                                  *)
RunDeferred ==
    /\ main.pc \in {"return", "panic"}
    /\ main.defers # <<>>
    /\ LET call == main.defers[Len(main.defers)]
           rest == SubSeq(main.defers, 1, Len(main.defers) - 1)
       IN /\ call = "db.Close" => ~StoreLocked
          /\ main' = [main EXCEPT !.defers = IF call = "mon.Close"
                                             THEN Append(rest, "db.Close") ELSE rest]
          /\ binding' = IF call = "cleanup" THEN Cleanup(binding, main.links) ELSE binding
          /\ closed' = CASE call = "statsTicker.Stop" -> closed \cup {"statsTicker"}
                          [] call = "debugTicker.Stop" -> closed \cup {"debugTicker"}
                          [] call = "reader.Close" -> closed \cup {"reader"}
                          [] call = "coll.Close" -> closed \cup {"coll"}
                          [] call = "mon.Close" ->
                                closed \cup {"newDeviceChan", "newPatternChan"}
                          [] call = "db.Close" -> closed \cup {"db"}
                          [] OTHER -> closed
    /\ UNCHANGED <<traffic, ring, submitted, eventCount, size, Cache, db, Stats, newDeviceChan,
                   newPatternChan, now, pw, ticks, patLog, devAttempts, tornRead,
                   held, verdicts, patternClients, twin, mu, reply>>

(* the process ends when main has run its deferred calls *)
Exit ==
    /\ main.pc \in {"return", "panic"}
    /\ main.defers = <<>>
    /\ main' = [main EXCEPT !.pc = "exit"]
    /\ UNCHANGED <<traffic, ring, submitted, eventCount, size, Cache, db, Stats, newDeviceChan,
                   newPatternChan, now, pw, ticks, patLog, devAttempts, tornRead,
                   binding, closed, held, verdicts, patternClients, twin, mu,
                   reply>>

Next ==
    \/ \E sample \in Samples : Submit(sample)
    \/ ProcessRecord
    \/ PersistTick
    \/ PersistBegin
    \/ PersistGet
    \/ PersistSet
    \/ PersistCommit
    \/ PrintStats
    \/ newDeviceNotifier
    \/ newPatternNotifier

Spec == Init /\ [][Next]_vars

(* the ingestion pipeline alone, on the full sample set *)
NextIngest ==
    \/ \E sample \in Samples : Submit(sample)
    \/ ProcessRecord

SpecIngest == InitIngest /\ [][NextIngest]_vars

SpecThree == InitThree /\ [][Next]_vars

(* one scripted host in front of the ingestion pipeline *)
InitScript == InitWith({SweepScript, RevisitScript, StutterScript, RepeatScript}, {1})

NextScript ==
    \/ SubmitScript
    \/ ProcessRecord

SpecScript == InitScript /\ [][NextScript]_vars

(* the classifier in front of the event loop that reads its records *)
InitKernel == InitWith(FrameMixes, {MaxCacheSize})

NextKernel ==
    \/ \E skb \in UNION FrameMixes : OnPacket(skb)
    \/ ProcessEvent

SpecKernel == InitKernel /\ [][NextKernel]_vars

(* hosts that send one kind of record in front of the ingestion pipeline *)
SpecClassify ==
    /\ InitWith(ClassifyMixes, {1})
    /\ [][ \/ \E sample \in UNION ClassifyMixes : Submit(sample)
           \/ ProcessRecord ]_vars

(* the tasks that take the monitor's lock or the store's lock or read the *)
(* cache, with the locks taken and released step by step (the new-device   *)
(* notifier only receives from its channel and prints); the scheduler runs *)
(* every task that can run                                                 *)
SpecLocks ==
    /\ InitWith({TwoDeviceMix}, {1})
    /\ [][ \/ \E sample \in TwoDeviceMix : Submit(sample)
           \/ ReaderRead
           \/ TrackEventLock
           \/ mu = "TrackEvent" /\ HandleRecord
           \/ PersistTick
           \/ PersistBegin
           \/ PersistGet
           \/ PersistSet
           \/ PersistCommit
           \/ PrintStats
           \/ newPatternNotifier ]_vars
    /\ WF_vars(TrackEventLock)
    /\ WF_vars(mu = "TrackEvent" /\ HandleRecord)
    /\ WF_vars(PersistBegin \/ PersistGet \/ PersistSet \/ PersistCommit)

(* the monitor and the API server's per-device queries: a device whose    *)
(* MAC is written with digits only, one whose MAC holds the digits a-f     *)
SpecApi ==
    /\ InitWith({{Sample(TcpSyn(<<0, 17, 34, 51, 68, 85>>, 443)), Sample(HttpGet(MacUnknown))}},
                {MaxCacheSize})
    /\ [][ \/ \E sample \in traffic : Submit(sample)
           \/ ProcessRecord
           \/ getDevice ]_vars

(* the monitor with its console printer and the API server's SSE clients *)
SpecFanout ==
    /\ InitWith({OneDeviceMix}, {1})
    /\ [][ \/ \E sample \in OneDeviceMix : Submit(sample)
           \/ ProcessRecord
           \/ newPatternNotifier
           \/ streamPatterns
           \/ streamPatternsReturn ]_vars

(* two monitors ingest the same three devices; the notification consumers  *)
(* of the first run at any speed, those of the second never run            *)
InitTwin ==
    /\ InitMonitor({ThreeDeviceMix}, {MaxCacheSize})
    /\ Monitoring
    /\ twin = <<[Cache |-> Cache, Stats |-> Stats, newPatternChan |-> newPatternChan,
                 newDeviceChan |-> newDeviceChan, patLog |-> patLog]>>

SpecTwin ==
    /\ InitTwin
    /\ [][ \/ \E sample \in ThreeDeviceMix : Submit(sample)
           \/ ProcessRecord
           \/ newDeviceNotifier
           \/ newPatternNotifier ]_vars

(* the classifier on the layer-7 frames in front of the event loop *)
SpecWire ==
    /\ InitWith(WireMixes, {MaxCacheSize})
    /\ [][ \/ \E skb \in UNION WireMixes : OnPacket(skb)
           \/ ProcessEvent ]_vars

(* main has built the monitor and loaded the collection; no interface is   *)
(* attached yet                                                            *)
Starting ==
    /\ main = [pc |-> "attach", idx |-> 1, links |-> <<>>,
               defers |-> <<"mon.Close", "coll.Close">>]
    /\ binding = [i \in 1..NumIfaces |-> [state |-> "Unbound", detaches |-> 0]]
    /\ closed = {}

InitLife == InitMonitor({TwoDeviceMix}, {1}) /\ Starting /\ twin = <<>>

(* the process is running: goroutines take steps *)
Alive == main.pc \notin {"exit", "crashed"}

(* the classifier runs on the interfaces it is attached to *)
Receiving == \E i \in 1..NumIfaces : binding[i].state = "Attached"

(* the whole life of the process, from the attach loop to its exit *)
NextLife ==
    \/ AttachNext
    \/ StartMonitoring
    \/ Signal
    \/ RunDeferred
    \/ Exit
    \/ Alive /\ Receiving /\ \E sample \in Samples : Submit(sample)
    \/ Alive /\ ReaderRead
    \/ Alive /\ HandleRecord
    \/ Alive /\ PersistTick
    \/ Alive /\ PersistBegin
    \/ Alive /\ PersistGet
    \/ Alive /\ PersistSet
    \/ Alive /\ PersistCommit

SpecLife == InitLife /\ [][NextLife]_vars

(* goroutines are scheduled: the event processor and a running snapshot   *)
(* transaction make progress; nothing is assumed about the notifiers       *)
FairSpec ==
    /\ InitWith({TwoDeviceMix}, {1})
    /\ [][Next]_vars
    /\ WF_vars(ProcessRecord)
    /\ WF_vars(PersistBegin \/ PersistGet \/ PersistSet \/ PersistCommit)

----------------------------------------------------------------------------
(* Properties *)

TypeOK ==
    /\ Len(ring) <= MaxRing
    /\ eventCount <= submitted
    /\ submitted <= MaxEvents

(* an iteration of the event processor that hands its record to TrackEvent *)
Ingests == ring # <<>> /\ eventCount' = eventCount + 1 /\ Len(Head(ring)) >= ExpectedSize

(* C1: while a device stays in the cache, at most one CommunicationPattern *)
(* per pattern key of that device is sent on the new-pattern channel.      *)
C1_AtMostOnePatternPerKey ==
    \A m \in DOMAIN patLog : \A i, j \in 1..Len(patLog[m]) :
        (patLog[m][i].key = patLog[m][j].key /\ patLog[m][i].sent /\ patLog[m][j].sent)
            => i = j

C1_Witness ==
    \E m \in DOMAIN patLog :
        /\ Len(patLog[m]) = 1
        /\ patLog[m][1].sent
        /\ CacheValue(Cache, m).TCPConnections >= 2
        /\ newPatternChan = <<>>

FamilyCounter ==
    <<"ArpPackets", "TcpPackets", "UdpPackets", "IcmpPackets", "DnsPackets",
      "HttpPackets", "TlsPackets">>

(* C2: an ingested event of type ARP..TLS (1..7) adds one to total_packets *)
(* and one to the counter of its own family, leaves every other global     *)
(* counter unchanged, and no global counter ever decreases.                *)
C2_OneFamilyCounterPerEvent ==
    [][ /\ \A f \in DOMAIN Stats : Stats'[f] >= Stats[f]
        /\ (Ingests /\ Head(ring)[1] \in 1..7) =>
              /\ Stats'.TotalPackets = Stats.TotalPackets + 1
              /\ \A t \in 1..7 :
                    Stats'[FamilyCounter[t]] =
                        Stats[FamilyCounter[t]] + (IF t = Head(ring)[1] THEN 1 ELSE 0) ]_vars

C2_Witness ==
    /\ Stats.TotalPackets = 3
    /\ Stats.DnsPackets = 1
    /\ Stats.HttpPackets = 1
    /\ Stats.TlsPackets = 1

(* C3: an event whose type is none of 1..7 is rejected by TrackEvent: no   *)
(* global counter changes, no device record is created or updated, nothing *)
(* is sent on the new-device or new-pattern channel.                       *)
C3_UnknownTypeRejected ==
    [][ (Ingests /\ Head(ring)[1] \notin 1..7) =>
            /\ Stats' = Stats
            /\ Cache' = Cache
            /\ newDeviceChan' = newDeviceChan
            /\ newPatternChan' = newPatternChan ]_vars

(* C4: every record of at least 75 bytes is parsed and handed to           *)
(* TrackEvent; every shorter record is discarded and the loop goes on.     *)
C4_SizeCheckAt75 ==
    [][ (ring # <<>> /\ eventCount' = eventCount + 1) =>
            /\ ring' = Tail(ring)
            /\ IF Len(Head(ring)) >= RecordSize
               THEN Stats'.TotalPackets = Stats.TotalPackets + 1
               ELSE Stats' = Stats /\ Cache' = Cache ]_vars

(* C5: no reader observes a device record in the middle of an update: what *)
(* the snapshot worker serialises is the record as it was before or after  *)
(* an event, never a mixture.                                              *)
C5_ReadersSeeWholeRecords == tornRead = FALSE

(* C6: TrackEvent never waits for a notification consumer: every record    *)
(* in the ring buffer is eventually taken out and processed, however       *)
(* slowly the notifiers drain their channels.                              *)
C6_IngestionNeverBlocksOnConsumers == (ring # <<>>) ~> (ring = <<>>)

C6_Witness ==
    /\ Len(newPatternChan) = PatternChanCap
    /\ Len(newDeviceChan) = DeviceChanCap
    /\ eventCount = MaxEvents
    /\ Stats.TotalPackets = MaxEvents

(* C7: a pattern whose notification was dropped is still recorded in the   *)
(* device's seen_patterns, and no later notification for that key is       *)
(* produced while the device stays in the cache.                           *)
C7_DroppedPatternStaysSeen ==
    \A m \in DOMAIN patLog : \A i \in 1..Len(patLog[m]) :
        ~patLog[m][i].sent =>
            /\ m \in CacheKeySet(Cache)
            /\ patLog[m][i].key \in CacheValue(Cache, m).SeenPatterns
            /\ \A j \in 1..Len(patLog[m]) : patLog[m][j].key = patLog[m][i].key => j = i

C7_Witness ==
    \E m \in DOMAIN patLog :
        /\ Len(patLog[m]) = 2
        /\ patLog[m][1].sent
        /\ ~patLog[m][2].sent
        /\ CacheValue(Cache, m).UDPConnections >= 2

(* C8: TrackEvent attempts a new-device notification exactly when the      *)
(* source MAC is in neither the cache nor the snapshot store; a rehydrated *)
(* or cached device is (re)inserted without one.                           *)
C8_NewDeviceIffUnknown ==
    [][ /\ devAttempts' # devAttempts => Ingests
        /\ newDeviceChan' # newDeviceChan /\ Len(newDeviceChan') > Len(newDeviceChan)
              => devAttempts' = devAttempts + 1
        /\ Ingests =>
              LET mac == MacToString(SubSeq(Head(ring), 2, 7)) IN
              /\ mac \in CacheKeySet(Cache')
              /\ devAttempts' = devAttempts +
                    (IF mac \notin CacheKeySet(Cache) /\ mac \notin DOMAIN db THEN 1 ELSE 0) ]_vars

C8_Witness ==
    /\ size = 1
    /\ Stats.TotalPackets = 3
    /\ devAttempts = 2
    /\ Len(Cache) = 1
    /\ Cache[1].value.FirstSeen = 1
    /\ Cache[1].value.LastSeen = 3

(* C9: the cache never holds more device records than the bound given to   *)
(* NewNetworkMonitor.                                                      *)
C9_CacheWithinBound == Len(Cache) <= size /\ Cardinality(CacheKeySet(Cache)) = Len(Cache)

C9_Witness == Len(Cache) = size /\ devAttempts > size

(* C10: the device evicted from a full cache is the one least recently     *)
(* updated by TrackEvent, whatever the readers of the cache have done.     *)
C10_EvictsLeastRecentlyUpdated ==
    [][ \A i \in 1..Len(Cache) :
            Cache[i].key \notin CacheKeySet(Cache') =>
                \A j \in 1..Len(Cache) : Cache[i].value.LastSeen <= Cache[j].value.LastSeen ]_vars

(* C11: for every cached device, after every TrackEvent, recent_targets    *)
(* holds no address twice, never holds "0.0.0.0", and has at most 20       *)
(* elements.                                                               *)
C11_TargetsDistinctNonZeroCapped ==
    \A i \in 1..Len(Cache) :
        LET targets == Cache[i].value.Targets IN
        /\ Len(targets) <= 20
        /\ \A a, b \in 1..Len(targets) : targets[a] = targets[b] => a = b
        /\ \A a \in 1..Len(targets) : targets[a] # "0.0.0.0"

C11_Witness ==
    /\ traffic = RevisitScript
    /\ eventCount = ScriptLen
    /\ Len(Cache) = 1
    /\ Len(Cache[1].value.Targets) = 20

(* C12: recent_targets is a FIFO window. A destination that is not in the  *)
(* list is appended at the end, and when that makes the list longer than   *)
(* 20 the front element is removed and the order of the others is kept;    *)
(* any other event leaves the list as it is. After k events to k distinct  *)
(* destinations the list is the last min(k, 20) of them in the order sent. *)
C12_TargetsFifoWindow ==
    [][ Ingests =>
          LET evt == ParseNetworkEvent(Head(ring))
              mac == MacToString(evt.SrcMac)
              dst == IPString(IntToIP(evt.DstIP))
              old == IF mac \in CacheKeySet(Cache) THEN CacheValue(Cache, mac).Targets
                     ELSE IF mac \in DOMAIN db THEN db[mac].Targets
                     ELSE <<>>
              new == CacheValue(Cache', mac).Targets
              k == eventCount'
              kept == IF k < 20 THEN k ELSE 20
          IN /\ IF dst # "0.0.0.0" /\ \A i \in 1..Len(old) : old[i] # dst
                THEN new = (IF Len(old) < 20 THEN old ELSE Tail(old)) \o <<dst>>
                ELSE new = old
             /\ traffic = SweepScript => new = [i \in 1..kept |-> IPString(<<192, 168, 0, k - kept + i>>)] ]_vars

C12_Witness ==
    /\ traffic = SweepScript
    /\ eventCount = 25
    /\ Len(Cache) = 1
    /\ Cache[1].value.Targets = [i \in 1..20 |-> IPString(<<192, 168, 0, 5 + i>>)]

(* C13: the same event ingested n >= 1 times in succession from one MAC,   *)
(* the device staying cached: one pattern notification is emitted,         *)
(* seen_patterns holds one key from the first ingest on, and the device's  *)
(* tcp_connections and services["HTTPS"] both equal n.                     *)
C13_RepeatIdempotentForPatternsOnly ==
    (traffic = RepeatScript /\ eventCount >= 1) =>
        LET mac == MacToString(MacVMware) IN
        /\ mac \in CacheKeySet(Cache)
        /\ Cardinality(CacheValue(Cache, mac).SeenPatterns) = 1
        /\ Len(patLog[mac]) = 1
        /\ patLog[mac][1].sent
        /\ Len(newPatternChan) = 1
        /\ CacheValue(Cache, mac).TCPConnections = eventCount
        /\ "HTTPS" \in DOMAIN CacheValue(Cache, mac).Services
        /\ CacheValue(Cache, mac).Services["HTTPS"] = eventCount

C13_Witness ==
    /\ traffic = RepeatScript
    /\ eventCount = 3
    /\ Len(Cache) = 1
    /\ Cache[1].value.TCPConnections = 3
    /\ Cache[1].value.Services["HTTPS"] = 3
    /\ newPatternChan # <<>>

(* C18: records reach the aggregator in ring-buffer order: the k-th record *)
(* the event processor takes is the k-th record submitted, it is the       *)
(* oldest one in the ring, and it has been ingested before the next one is *)
(* taken.                                                                  *)
C18_RecordsIngestedInSubmissionOrder ==
    [][ eventCount' # eventCount =>
          /\ eventCount' = eventCount + 1
          /\ Head(ring) = traffic[eventCount']
          /\ ring' = SubSeq(traffic, eventCount' + 1, submitted)
          /\ Stats'.TotalPackets = eventCount' ]_vars

C18_Witness ==
    /\ traffic = SweepScript
    /\ Len(ring) = MaxBacklog
    /\ eventCount >= 2
    /\ Len(Cache) = 1
    /\ Cache[1].value.Targets = [i \in 1..eventCount |-> IPString(<<192, 168, 0, i>>)]

(* C14: on a snapshot tick the worker enumerates the cache keys; inside    *)
(* the transaction it writes, for every enumerated MAC that is still       *)
(* cached, key = MAC and value = the JSON of that device's record, which   *)
(* has neither seen_patterns nor flow_stats; an enumerated MAC that has    *)
(* been evicted is skipped and nothing is written for it.                  *)
C14_SnapshotWritesStillCachedDevices ==
    [][ /\ (pw.pc = "idle" /\ pw'.pc # "idle") => pw'.keys = CacheKeys(Cache)
        /\ (pw.pc = "tx" /\ pw' # pw /\ pw.keys # <<>>
                /\ Head(pw.keys) \notin CacheKeySet(Cache)) =>
              /\ db' = db
              /\ pw'.pc = "tx"
              /\ pw'.keys = Tail(pw.keys)
        /\ db' # db =>
              /\ pw.pc = "marshal"
              /\ pw'.keys = Tail(pw.keys)
              /\ LET mac == Head(pw.keys) IN
                 /\ mac \in CacheKeySet(Cache)
                 /\ DOMAIN db' = DOMAIN db \cup {mac}
                 /\ \A m \in DOMAIN db : m # mac => db'[m] = db[m]
                 /\ db'[mac].MAC = mac
                 /\ "SeenPatterns" \notin DOMAIN db'[mac]
                 /\ "FlowStats" \notin DOMAIN db'[mac]
                 /\ \A f \in DOMAIN db'[mac] :
                       db'[mac][f] \in {pw.buf[1][f], CacheValue(Cache, mac)[f]} ]_vars

(* inside the transaction, the next enumerated device is no longer cached *)
C14_Witness ==
    /\ pw.pc = "tx"
    /\ pw.keys # <<>>
    /\ Head(pw.keys) \notin CacheKeySet(Cache)
    /\ Len(Cache) = size

(* C17: while the snapshot task serialises devices and writes them to the  *)
(* store, a record waiting in the ring buffer can be ingested at once,     *)
(* also when its source MAC misses the cache and TrackEvent reads the      *)
(* store.                                                                  *)
C17_SnapshotWriteNeverBlocksIngestion ==
    (StoreLocked /\ ring # <<>>) => ENABLED ProcessRecord

(* C19: for every frame the classifier returns TC_ACT_OK and submits at    *)
(* most one event; when the ring-buffer reservation fails, or the frame is *)
(* truncated or is not ARP or IPv4 TCP/UDP/ICMP, it submits no event and   *)
(* still returns TC_ACT_OK.                                                *)
C19_ClassifierAlwaysPasses ==
    [][ \A skb \in traffic :
          LET ethertype == bpf_ntohs(skb, 12)
              l4HdrSize == CASE skb[24] = 6 -> 20 [] skb[24] = 17 -> 8 [] skb[24] = 1 -> 8
                             [] OTHER -> 0
              Truncated ==
                  \/ Len(skb) < 14
                  \/ ethertype = 2054 /\ Len(skb) < 14 + 28
                  \/ ethertype = 2048 /\ Len(skb) < 14 + 20
                  \/ ethertype = 2048 /\ Len(skb) < 14 + (skb[15] % 16) * 4 + l4HdrSize
              Monitored ==
                  \/ ethertype = 2054
                  \/ ethertype = 2048 /\ skb[24] \in {6, 17, 1}
          IN
          OnPacket(skb) =>
            /\ verdicts' = Append(verdicts, "TC_ACT_OK")
            /\ \/ ring' = ring
               \/ Len(ring') = Len(ring) + 1 /\ SubSeq(ring', 1, Len(ring)) = ring
            /\ (Len(ring) >= MaxRing \/ Truncated \/ ~Monitored) => ring' = ring ]_vars

(* three frames handled, all passed, one event in the ring *)
C19_Witness ==
    /\ Len(verdicts) = 3
    /\ \A i \in 1..3 : verdicts[i] = "TC_ACT_OK"
    /\ Len(ring) = 1
    /\ eventCount = 0

(* the store holds the current record of every cached device *)
Flushed ==
    \A i \in 1..Len(Cache) :
        /\ Cache[i].key \in DOMAIN db
        /\ db[Cache[i].key] = Marshal(Cache[i].value)

(* the step in which the key-value store is closed after a signal *)
StoreCloses == main.pc = "return" /\ "db" \in closed' /\ "db" \notin closed

(* C15: shutdown performs one final snapshot flush: when the store is      *)
(* closed, every device in the cache has been written to it with its       *)
(* latest updates.                                                         *)
C15_ShutdownFlushesCache == [][ StoreCloses => Flushed ]_vars

(* C16: on shutdown the reader is stopped, the ingestion task has finished *)
(* its record, the snapshot task is stopped, a final snapshot is flushed   *)
(* and all bindings are detached before the store is closed; once the      *)
(* store is closed no TrackEvent and no snapshot activity takes place.     *)
C16_ShutdownOrder ==
    [][ /\ StoreCloses =>
              /\ "reader" \in closed
              /\ held = <<>>
              /\ pw.pc = "idle"
              /\ Flushed
              /\ \A i \in 1..NumIfaces : binding[i].state # "Attached"
        /\ (\E i \in 1..NumIfaces : binding'[i].state = "Detached") => "reader" \in closed
        /\ (main.pc = "return" /\ "db" \in closed) =>
              /\ Stats' = Stats
              /\ Cache' = Cache
              /\ db' = db
              /\ pw' = pw ]_vars

(* C20: a binding goes Unbound -> Attached -> Detached; an interface whose *)
(* attach failed is never detached; main goes on only with at least one    *)
(* interface attached and aborts otherwise; every attached interface is    *)
(* detached exactly once, before the BPF collection is closed.             *)
C20_BindingLifecycle ==
    [][ /\ \A i \in 1..NumIfaces :
             /\ binding'[i].state # binding[i].state =>
                    <<binding[i].state, binding'[i].state>> \in
                        {<<"Unbound", "Attached">>, <<"Attached", "Detached">>}
             /\ binding'[i].detaches = IF binding'[i].state = "Detached" THEN 1 ELSE 0
        /\ (main.pc = "attach" /\ main'.pc # "attach") =>
              main'.pc = IF Receiving THEN "wait" ELSE "panic"
        /\ main'.pc = "panic" => \A i \in 1..NumIfaces : binding'[i].state = "Unbound"
        /\ ("coll" \in closed' \/ main'.pc = "exit") =>
              \A i \in 1..NumIfaces : binding'[i].state # "Attached" ]_vars

(* the process has exited after running with one interface whose attach    *)
(* failed and one that was attached                                        *)
C20_Witness ==
    /\ main.pc = "exit"
    /\ "coll" \in closed
    /\ \E i, j \in 1..NumIfaces :
          /\ binding[i] = [state |-> "Unbound", detaches |-> 0]
          /\ binding[j] = [state |-> "Detached", detaches |-> 1]

(* C21: every record the classifier writes has the 75-byte packed layout,  *)
(* and ParseNetworkEvent applied to it returns the values written: the     *)
(* parsed event encodes back to the same 75 bytes, and its addresses,      *)
(* ports, flags, ARP fields, icmp_type, icmp_code and 32-byte l7_payload   *)
(* are those of the frame the record was written for.                      *)
C21_WireRoundTrip ==
    [][ \A skb \in traffic :
          (OnPacket(skb) /\ ring' # ring) =>
            LET rec == ring'[Len(ring')]
                evt == ParseNetworkEvent(rec)
                ipProto == IF bpf_ntohs(skb, 12) = 2048 THEN skb[24] ELSE 0
            IN /\ Len(rec) = 75
               /\ network_event(evt) = rec
               /\ evt.SrcMac = SubSeq(skb, 7, 12)
               /\ evt.DstMac = SubSeq(skb, 1, 6)
               /\ evt.Protocol = ipProto
               /\ ipProto # 0 =>
                    /\ IntToIP(evt.SrcIP) = SubSeq(skb, 27, 30)
                    /\ IntToIP(evt.DstIP) = SubSeq(skb, 31, 34)
               /\ ipProto \in {6, 17} =>
                    /\ evt.SrcPort = skb[35] * 256 + skb[36]
                    /\ evt.DstPort = skb[37] * 256 + skb[38]
               /\ ipProto = 6 =>
                    /\ evt.TCPFlags = skb[48]
                    /\ evt.L7Payload = Pad(SubSeq(skb, 55, Len(skb)), 32)
               /\ ipProto = 17 => evt.L7Payload = Pad(SubSeq(skb, 43, Len(skb)), 32)
               /\ ipProto = 1 => evt.ICMPType = skb[35] /\ evt.ICMPCode = skb[36]
               /\ ipProto = 0 =>
                    /\ evt.ArpOp = skb[21] * 256 + skb[22]
                    /\ evt.ArpSha = SubSeq(skb, 23, 28)
                    /\ IntToIP(evt.SrcIP) = SubSeq(skb, 29, 32)
                    /\ evt.ArpTha = SubSeq(skb, 33, 38)
                    /\ IntToIP(evt.DstIP) = SubSeq(skb, 39, 42) ]_vars

(* a request line written by the classifier was parsed and its text is in  *)
(* the device record                                                       *)
C21_Witness ==
    /\ eventCount = 1
    /\ Len(Cache) = 1
    /\ <<71, 69, 84, 32, 47>> \in DOMAIN Cache[1].value.HTTPHosts

(* C28 as stated: a TCP segment becomes HTTP iff a port is 80 or 8080 and  *)
(* the payload starts with a request word, TLS iff a port is 443 or 8443   *)
(* and the payload bytes are 0x16, 0x03 and a byte in 0x00..0x04; a UDP    *)
(* datagram becomes DNS iff a port is 53; otherwise the type stays TCP or  *)
(* UDP.                                                                    *)
C28_UpgradeRulesAsStated ==
    [][ \A skb \in traffic :
          (OnPacket(skb) /\ ring' # ring /\ bpf_ntohs(skb, 12) = 2048 /\ skb[24] \in {6, 17}) =>
            LET type == ring'[Len(ring')][1]
                ports == {skb[35] * 256 + skb[36], skb[37] * 256 + skb[38]}
                payload == SubSeq(skb, 55, Len(skb))
                http == /\ ports \cap {80, 8080} # {}
                        /\ Len(payload) >= 4
                        /\ SubSeq(payload, 1, 4) \in
                              { <<71, 69, 84, 32>>, <<80, 79, 83, 84>>, <<72, 69, 65, 68>>,
                                <<80, 85, 84, 32>>, <<68, 69, 76, 69>> }
                tls == /\ ports \cap {443, 8443} # {}
                       /\ Len(payload) >= 3
                       /\ payload[1] = 22 /\ payload[2] = 3 /\ payload[3] \in 0..4
            IN IF skb[24] = 6
               THEN /\ type = 7 <=> tls
                    /\ type = 6 <=> http
                    /\ type \in {2, 6, 7}
               ELSE /\ type = 5 <=> 53 \in ports
                    /\ type \in {3, 5} ]_vars

(* C28: the same rules, where the TLS rule also requires that the frame    *)
(* holds at least 6 bytes of TCP payload (the record header and the        *)
(* handshake type).                                                        *)
C28_UpgradeRules ==
    [][ \A skb \in traffic :
          (OnPacket(skb) /\ ring' # ring /\ bpf_ntohs(skb, 12) = 2048 /\ skb[24] \in {6, 17}) =>
            LET type == ring'[Len(ring')][1]
                ports == {skb[35] * 256 + skb[36], skb[37] * 256 + skb[38]}
                payload == SubSeq(skb, 55, Len(skb))
                http == /\ ports \cap {80, 8080} # {}
                        /\ Len(payload) >= 4
                        /\ SubSeq(payload, 1, 4) \in
                              { <<71, 69, 84, 32>>, <<80, 79, 83, 84>>, <<72, 69, 65, 68>>,
                                <<80, 85, 84, 32>>, <<68, 69, 76, 69>> }
                tls == /\ ports \cap {443, 8443} # {}
                       /\ Len(payload) >= 6
                       /\ payload[1] = 22 /\ payload[2] = 3 /\ payload[3] \in 0..4
            IN IF skb[24] = 6
               THEN /\ type = 7 <=> tls
                    /\ type = 6 <=> http
                    /\ type \in {2, 6, 7}
               ELSE /\ type = 5 <=> 53 \in ports
                    /\ type \in {3, 5} ]_vars

(* the classifier has upgraded a segment from the TLS port and the event   *)
(* loop has counted it as TLS                                              *)
C28_Witness ==
    /\ Stats.TlsPackets = 1
    /\ \E skb \in traffic :
          Len(skb) >= 60 /\ skb[37] * 256 + skb[38] = 443 /\ skb[55] = 22

(* C24: a TCP event is tagged by its destination port when that is 80, 443 *)
(* or 22, whatever its flags, and otherwise by its flags: SYN without ACK, *)
(* SYN with ACK, FIN, RST and ACK in this order of precedence, TCP_CUSTOM  *)
(* when none is set; the device record and the pattern carry exactly that  *)
(* one tag.                                                                *)
C24_TcpTagByPortThenFlags ==
    \A rec \in traffic :
        (rec[1] = 2 /\ Cache # <<>>) =>
            LET dstPort == rec[24] + 256 * rec[25]
                flags == rec[27]
                fin == (flags % 2) = 1
                syn == ((flags \div 2) % 2) = 1
                rst == ((flags \div 4) % 2) = 1
                ack == ((flags \div 16) % 2) = 1
                byFlags == CASE syn /\ ~ack -> "TCP_SYN"
                             [] syn /\ ack -> "TCP_SYNACK"
                             [] ~syn /\ fin -> "TCP_FIN"
                             [] ~syn /\ ~fin /\ rst -> "TCP_RST"
                             [] ~syn /\ ~fin /\ ~rst /\ ack -> "TCP_ACK"
                             [] ~syn /\ ~fin /\ ~rst /\ ~ack -> "TCP_CUSTOM"
                tag == CASE dstPort = 80 -> "TCP_HTTP"
                         [] dstPort = 443 -> "TCP_HTTPS"
                         [] dstPort = 22 -> "TCP_SSH"
                         [] dstPort \notin {80, 443, 22} -> byFlags
            IN /\ DOMAIN Cache[1].value.TrafficTypeCounts = {tag}
               /\ Cache[1].value.TrafficTypeCounts[tag] = eventCount
               /\ \A i \in 1..Len(newPatternChan) : newPatternChan[i].TrafficType = tag

(* a segment with FIN, RST, PSH and ACK set to an unlisted port was tagged *)
C24_Witness ==
    /\ eventCount = 2
    /\ Len(Cache) = 1
    /\ \E rec \in traffic : rec[1] = 2 /\ rec[27] = 29 /\ rec[24] + 256 * rec[25] = 9999
    /\ "TCP_FIN" \in DOMAIN Cache[1].value.TrafficTypeCounts

(* C25: an ARP event is tagged ARP_PROBE when its source address is        *)
(* 0.0.0.0 (also when the destination is 0.0.0.0 too), otherwise           *)
(* ARP_ANNOUNCE when source and destination are equal, otherwise           *)
(* ARP_REQUEST for operation 1, ARP_REPLY for operation 2 and ARP_REQUEST  *)
(* for any other operation.                                                *)
C25_ArpTagByAddressesThenOp ==
    \A rec \in traffic :
        (rec[1] = 1 /\ Cache # <<>>) =>
            LET src == SubSeq(rec, 14, 17)
                dst == SubSeq(rec, 18, 21)
                op == rec[28] + 256 * rec[29]
                tag == CASE src = <<0, 0, 0, 0>> -> "ARP_PROBE"
                         [] src # <<0, 0, 0, 0>> /\ src = dst -> "ARP_ANNOUNCE"
                         [] src # <<0, 0, 0, 0>> /\ src # dst /\ op = 2 -> "ARP_REPLY"
                         [] src # <<0, 0, 0, 0>> /\ src # dst /\ op # 2 -> "ARP_REQUEST"
            IN /\ DOMAIN Cache[1].value.TrafficTypeCounts = {tag}
               /\ \A i \in 1..Len(newPatternChan) : newPatternChan[i].TrafficType = tag

(* an ARP event with both addresses unspecified was tagged as a probe *)
C25_Witness ==
    /\ eventCount = 1
    /\ Len(Cache) = 1
    /\ \E rec \in traffic : rec[1] = 1 /\ SubSeq(rec, 14, 21) = <<0, 0, 0, 0, 0, 0, 0, 0>>
    /\ DOMAIN Cache[1].value.TrafficTypeCounts = {"ARP_PROBE"}

(* C26 as stated: for every ARP, ICMP, DNS, HTTP and TLS event the service *)
(* label counted in the device's services map and carried by the pattern   *)
(* is the string of the event's traffic-type tag.                          *)
C26_ServiceLabelIsTag ==
    \A rec \in traffic :
        (rec[1] \in {1, 4, 5, 6, 7} /\ Cache # <<>>) =>
            /\ DOMAIN Cache[1].value.Services = DOMAIN Cache[1].value.TrafficTypeCounts
            /\ \A i \in 1..Len(newPatternChan) :
                  newPatternChan[i].Service = newPatternChan[i].TrafficType

(* C26: for every ARP and ICMP event the service label is the string of    *)
(* the traffic-type tag; for every DNS, HTTP and TLS event it is the       *)
(* protocol label "DNS", "HTTP" or "TLS".                                  *)
C26_ServiceLabel ==
    \A rec \in traffic :
        (rec[1] \in {1, 4, 5, 6, 7} /\ Cache # <<>>) =>
            LET label == CASE rec[1] = 5 -> {"DNS"}
                           [] rec[1] = 6 -> {"HTTP"}
                           [] rec[1] = 7 -> {"TLS"}
                           [] rec[1] \in {1, 4} -> DOMAIN Cache[1].value.TrafficTypeCounts
            IN /\ Cardinality(label) = 1
               /\ DOMAIN Cache[1].value.Services = label
               /\ \A s \in label : Cache[1].value.Services[s] = eventCount
               /\ \A i \in 1..Len(newPatternChan) :
                     /\ newPatternChan[i].Service \in label
                     /\ rec[1] \in {1, 4} =>
                          newPatternChan[i].Service = newPatternChan[i].TrafficType

(* a DNS response was ingested: its tag is DNS_RESPONSE, its label DNS *)
C26_Witness ==
    /\ eventCount = 1
    /\ Len(Cache) = 1
    /\ DOMAIN Cache[1].value.TrafficTypeCounts = {"DNS_RESPONSE"}
    /\ DOMAIN Cache[1].value.Services = {"DNS"}
    /\ Len(newPatternChan) = 1

(* C27: an HTTP event whose peek is "GET " followed by zero padding is     *)
(* tagged HTTP_GET and its l7_info is the bare method "GET".               *)
C27_BareGetHasEmptyPath ==
    \A rec \in traffic :
        (rec[1] = 6 /\ SubSeq(rec, 44, 75) = <<71, 69, 84, 32>> \o [i \in 1..28 |-> 0]
                    /\ Cache # <<>>) =>
            /\ DOMAIN Cache[1].value.TrafficTypeCounts = {"HTTP_GET"}
            /\ DOMAIN Cache[1].value.HTTPHosts = {<<71, 69, 84>>}
            /\ \A i \in 1..Len(newPatternChan) : newPatternChan[i].L7Info = <<71, 69, 84>>

(* C29: for an HTTP event whose peek starts with a method and a space, the *)
(* l7_info carries a path only when the second token ends at white space   *)
(* inside the peek, and then it is that token; when the token runs to the  *)
(* end of the peek, the l7_info is the bare method.                        *)
C29_PathOnlyWhenWhole ==
    \A rec \in traffic :
        (rec[1] = 6 /\ Cache # <<>>) =>
            LET peek == SubSeq(rec, 44, 75)
                white == {9, 10, 11, 12, 13, 32}
                methods == { m \in { <<71, 69, 84>>, <<80, 79, 83, 84>>, <<72, 69, 65, 68>>,
                                     <<80, 85, 84>>, <<68, 69, 76, 69, 84, 69>> } :
                             SubSeq(peek, 1, Len(m) + 1) = m \o <<32>> }
            IN \A method \in methods :
                 LET starts == {i \in (Len(method) + 1)..32 : peek[i] \notin white}
                     start == CHOOSE i \in starts : \A j \in starts : i <= j
                     ends == IF starts = {} THEN {}
                             ELSE {i \in start..32 : peek[i] \in white}
                     end == CHOOSE i \in ends : \A j \in ends : i <= j
                     l7Info == IF ends = {} THEN method
                               ELSE method \o <<32>> \o SubSeq(peek, start, end - 1)
                 IN DOMAIN Cache[1].value.HTTPHosts = {l7Info}

(* C30: InspectDNS reads only indices 0..31 of the peek and returns the    *)
(* dot-joined labels it has collected from offset 12 when it stops: at a   *)
(* zero length, at a length above 63, at a label that would extend past    *)
(* byte 32, or at the end of the peek; the name is empty when the byte at  *)
(* offset 12 is zero. (No label of the peeks holds a dot.)                 *)
C30_DnsNameWithinPeek ==
    \A rec \in traffic :
        (rec[1] = 5 /\ Cache # <<>>) =>
            LET payload == SubSeq(rec, 44, 75)
                names == DOMAIN Cache[1].value.DNSDomains
                name == IF names = {} THEN <<>> ELSE CHOOSE k \in names : TRUE
                n == Len(name)
                stop == IF n = 0 THEN 12 ELSE 13 + n
                marks == {0} \cup {i \in 1..n : name[i] = 46}
                after(b) == CHOOSE i \in (marks \cup {n + 1}) :
                               /\ i > b
                               /\ \A j \in (marks \cup {n + 1}) : j > b => i <= j
            IN /\ Cardinality(names) <= 1
               /\ DNSReads(payload, 12) \subseteq 0..31
               /\ payload[13] = 0 => name = <<>>
               /\ stop <= 32
               /\ \A i \in 1..n : name[i] # 46 => payload[13 + i] = name[i]
               /\ n > 0 => \A b \in marks :
                              /\ payload[13 + b] = after(b) - b - 1
                              /\ payload[13 + b] \in 1..63
               /\ stop < 32 =>
                    \/ payload[stop + 1] = 0
                    \/ payload[stop + 1] > 63
                    \/ stop + payload[stop + 1] + 1 > 32

(* a question whose second label would extend past the peek was ingested:  *)
(* the name is the first label                                             *)
C30_Witness ==
    /\ eventCount = 1
    /\ Len(Cache) = 1
    /\ \E rec \in traffic : rec[1] = 5 /\ SubSeq(rec, 56, 60) = <<3, 119, 119, 119, 16>>
    /\ DOMAIN Cache[1].value.DNSDomains = {<<119, 119, 119>>}

(* C22: two runs that ingest the same events and differ only in how fast   *)
(* the notification consumers drain have the same global counters and the  *)
(* same cached device records after each event                             *)
C22_AggregationIgnoresSubscribers ==
    twin # <<>> =>
        /\ Stats = twin[1].Stats
        /\ {Cache[i] : i \in 1..Len(Cache)}
              = {twin[1].Cache[i] : i \in 1..Len(twin[1].Cache)}

(* C23: each pattern notification the aggregator enqueues is delivered to  *)
(* every subscriber: when the console printer receives a pattern, every    *)
(* SSE client that was connected when the pattern was enqueued has been    *)
(* sent it on its own channel                                              *)
C23_EverySubscriberGetsEachPattern ==
    [][ newPatternNotifier =>
          \A c \in DOMAIN patternClients :
             patternClients[c].since <= Head(newPatternChan).Timestamp =>
                \E i \in 1..Len(patternClients[c].ch) :
                   patternClients[c].ch[i] = Head(newPatternChan) ]_vars

(* C31: a DNS, HTTP or TLS event whose peek yields an empty l7_info is     *)
(* still counted in its global family counter, in traffic_type_counts, in  *)
(* services and in tcp_connections or udp_connections, and changes none of *)
(* dns_domains, http_hosts, tls_snis, dns_queries, http_requests and       *)
(* tls_connections; every event with a non-empty l7_info adds one to one   *)
(* entry of the map of its family and one to the matching counter, and     *)
(* events of the other types change none of the six.                       *)
C31_EmptyL7StillCounted ==
    \A rec \in traffic :
        Cache # <<>> =>
            LET d == Cache[1].value
                l7 == GetL7Info(ParseNetworkEvent(rec))
                n == eventCount
                One(m) == Cardinality(DOMAIN m) = 1 /\ \A k \in DOMAIN m : m[k] = n
                MapOf == (5 :> "DNSDomains") @@ (6 :> "HTTPHosts") @@ (7 :> "TLSSNIs")
                CounterOf == (5 :> "DNSQueries") @@ (6 :> "HTTPRequests")
                                @@ (7 :> "TLSConnections")
                Map(t) == IF rec[1] = t /\ l7 # <<>> THEN One(d[MapOf[t]])
                          ELSE DOMAIN d[MapOf[t]] = {}
                Counter(t) == d[CounterOf[t]] = IF rec[1] = t /\ l7 # <<>> THEN n ELSE 0
            IN /\ One(d.TrafficTypeCounts)
               /\ One(d.Services)
               /\ rec[1] = 5 => Stats.DnsPackets = n /\ d.UDPConnections = n
               /\ rec[1] = 6 => Stats.HttpPackets = n /\ d.TCPConnections = n
               /\ rec[1] = 7 => Stats.TlsPackets = n /\ d.TCPConnections = n
               /\ \A t \in {5, 6, 7} : Map(t) /\ Counter(t)

(* a DNS question with an empty name was ingested: counted, no domain *)
C31_Witness ==
    /\ eventCount = 2
    /\ Len(Cache) = 1
    /\ \E rec \in traffic : rec[1] = 5 /\ GetL7Info(ParseNetworkEvent(rec)) = <<>>
    /\ Stats.DnsPackets = 2
    /\ Cache[1].value.UDPConnections = 2
    /\ DOMAIN Cache[1].value.DNSDomains = {}

(* C32: an event of a device that is in the cache overwrites the device's *)
(* ip exactly when its source address is not 0.0.0.0: an event with       *)
(* src_ip = 0.0.0.0 leaves ip unchanged, an event with another non-zero    *)
(* src_ip replaces it, and mac, vendor and first_seen stay as they were.   *)
C32_IpOverwrittenByNonZeroSource ==
    [][ \A mac \in CacheKeySet(Cache) :
          (Ingests /\ mac = MacToString(SubSeq(Head(ring), 2, 7))) =>
             LET old == CacheValue(Cache, mac)
                 new == CacheValue(Cache', mac)
                 src == SubSeq(Head(ring), 14, 17)
             IN /\ new.MAC = old.MAC
                /\ new.Vendor = old.Vendor
                /\ new.FirstSeen = old.FirstSeen
                /\ new.IP = IF src = <<0, 0, 0, 0>> THEN old.IP ELSE IPString(src) ]_vars

(* the device sent from 192.168.0.100 to 8.8.8.8 and then an ARP probe     *)
(* with source 0.0.0.0: it keeps its address                               *)
C32_Witness ==
    \E i \in 1..Len(Cache) :
        /\ Cache[i].value.IP = "192.168.0.100"
        /\ Cache[i].value.Targets = <<"8.8.8.8", "192.168.1.50">>
        /\ "ARP_PROBE" \in DOMAIN Cache[i].value.TrafficTypeCounts

C34_NoSendOnClosedChannel ==
    [][ ({"newDeviceChan", "newPatternChan"} \cap closed # {}) =>
            /\ main'.pc # "crashed"
            /\ patLog' = patLog
            /\ devAttempts' = devAttempts ]_vars

(* C35: the ingestion task, the snapshot worker, the stats printer and the *)
(* notifiers never deadlock: whenever the ingestion task or the snapshot   *)
(* worker is in the middle of its work, one of them can take a step; the   *)
(* ingestion task always comes back to holding no record and no lock, so   *)
(* every TrackEvent gets the monitor's write lock, ends and releases it    *)
(* (also when it waits for the store on a cache miss), and the snapshot    *)
(* worker always comes back to idle, so it gets the store's lock and ends  *)
(* its transaction.                                                        *)
C35_NoDeadlock ==
    /\ []((held # <<>> \/ pw.pc # "idle") =>
            ENABLED (\/ TrackEventLock
                     \/ mu = "TrackEvent" /\ HandleRecord
                     \/ PersistBegin \/ PersistGet \/ PersistSet \/ PersistCommit))
    /\ []<>(held = <<>> /\ mu = "free")
    /\ []<>(pw.pc = "idle")

(* TrackEvent holds the monitor's lock and needs the store for a device    *)
(* that is not cached, while the snapshot worker is inside its transaction *)
C35_Witness ==
    /\ mu = "TrackEvent"
    /\ StoreLocked
    /\ pw.keys # <<>>
    /\ MacToString(SubSeq(held[1], 2, 7)) \notin CacheKeySet(Cache)

(* C36: in every device record, in the cache and in every snapshot in the *)
(* store (all ingested events have a type in 1..7), the sum of             *)
(* traffic_type_counts equals the sum of services, and both equal          *)
(* request_count + reply_count + tcp_connections + udp_connections +       *)
(* icmp_packets.                                                           *)
C36_TotalsAgree ==
    LET Sum(m) ==
            LET part[S \in SUBSET DOMAIN m] ==
                    IF S = {} THEN 0
                    ELSE LET k == CHOOSE k \in S : TRUE IN m[k] + part[S \ {k}]
            IN part[DOMAIN m]
        Agree(d) ==
            /\ Sum(d.TrafficTypeCounts) = Sum(d.Services)
            /\ Sum(d.Services) = d.RequestCount + d.ReplyCount + d.TCPConnections
                                    + d.UDPConnections + d.ICMPPackets
    IN /\ \A i \in 1..Len(Cache) : Agree(Cache[i].value)
       /\ \A mac \in DOMAIN db : Agree(db[mac])

(* C37: over the whole life of the process a snapshot, once written,      *)
(* stays in the store, and a new-device notification is attempted for a    *)
(* MAC only when it is neither in the cache nor in the store; so a MAC     *)
(* that was announced before (and was cached then) is announced again only *)
(* if it was evicted before any snapshot had written it, and never once it *)
(* has been snapshotted.                                                   *)
C37_AnnouncedAgainOnlyIfNeverSnapshotted ==
    [][ /\ DOMAIN db \subseteq DOMAIN db'
        /\ devAttempts' # devAttempts =>
              /\ held # <<>>
              /\ devAttempts' = devAttempts + 1
              /\ LET mac == MacToString(SubSeq(held[1], 2, 7)) IN
                 /\ mac \notin DOMAIN db
                 /\ mac \notin CacheKeySet(Cache)
                 /\ mac \in CacheKeySet(Cache') ]_vars

(* two devices and three announcements: one device was evicted before a    *)
(* snapshot and announced again, while the other is in the store           *)
C37_Witness ==
    /\ devAttempts = 3
    /\ DOMAIN db # {}

(* C38: the per-device query handlers find every device that is in the    *)
(* cache: a request that names a cached device's MAC, in lower or in upper *)
(* case, is answered with the device, for MACs with the digits a-f too.    *)
C38_HandlersFindCachedDevices ==
    [][ getDevice =>
          \A key \in CacheKeySet(Cache) :
             reply'.param \in {key, ToUpper(key)} => reply'.status = 200 ]_vars

====
